---- MODULE Spec2Model ----
(***************************************************************************)
(* Model of the Harmony job orchestrator core: the Job entity and its      *)
(* status state machine (services/harmony/app/models/job.ts), the          *)
(* user_work counters touched by pausing (app/models/user-work.ts) and     *)
(* the jobs table the Job objects are loaded from and saved to.            *)
(***************************************************************************)
EXTENDS Integers, Sequences, FiniteSets, TLC

\* ------------------------------------------------------------------------
\* Bounds of the model
\* ------------------------------------------------------------------------
NumCallers == 2        \* concurrent callers holding a Job object each
NumServices == 2       \* services that work items are queued for
MaxReady == 1          \* cap on the work items of a (job, service) that are ready
MaxRunning == 1        \* cap on the work items of a (job, service) that are running
MaxBatches == 1        \* cap on batchesCompleted
MaxLinks == 1          \* cap on the links held by a Job object
MaxSteps == 1          \* cap on the workflow steps of the job
MaxTime == 3           \* the clock runs from minute 1 to minute MaxTime
MaxPages == 3          \* the largest maxPages handed to querySource
MaxPageSize == 2       \* the largest pageSize handed to querySource
StepProgressDen == 2   \* a step's progress is n / StepProgressDen, n in 0..StepProgressDen

Callers == 1..NumCallers
Services == 1..NumServices

\* the jobs with rows in user_work and the users that own them
Jobs == {"j1", "j2", "j3"}
Usernames == {"userA", "userB"}
UserOf == [j \in Jobs |-> IF j = "j2" THEN "userB" ELSE "userA"]

\* the job the Job objects of the callers stand for
TheJob == "j1"

\* the values of last_worked
Times == {1, 2}

\* ------------------------------------------------------------------------
\* JobStatus, JobEvent and the state machine
\* ------------------------------------------------------------------------
JobStatus ==
  {"accepted", "running", "running_with_errors", "successful", "failed",
   "canceled", "paused", "previewing", "complete_with_errors"}

JobEvent ==
  {"CANCEL", "COMPLETE", "COMPLETE_WITH_ERRORS", "FAIL", "PAUSE", "RESUME",
   "SKIP_PREVIEW", "START", "START_WITH_PREVIEW"}

\* JS undefined (a missing message, a field never assigned)
Undefined == "<undefined>"

\* the `on` table of every state of the machine: event -> target
stateMachine ==
  [accepted |-> [START |-> "running", START_WITH_PREVIEW |-> "previewing"],
   running |-> [COMPLETE |-> "successful",
                COMPLETE_WITH_ERRORS |-> "complete_with_errors",
                CANCEL |-> "canceled", FAIL |-> "failed", PAUSE |-> "paused"],
   running_with_errors |-> [COMPLETE |-> "successful",
                COMPLETE_WITH_ERRORS |-> "complete_with_errors",
                CANCEL |-> "canceled", FAIL |-> "failed", PAUSE |-> "paused"],
   successful |-> <<>>,
   complete_with_errors |-> <<>>,
   failed |-> [FAIL |-> "failed"],
   canceled |-> <<>>,
   previewing |-> [SKIP_PREVIEW |-> "running", CANCEL |-> "canceled",
                   FAIL |-> "failed", PAUSE |-> "paused"],
   paused |-> [SKIP_PREVIEW |-> "running", RESUME |-> "running",
               CANCEL |-> "canceled", FAIL |-> "failed"]]

\* the states declared with type: 'final'
finalType ==
  [s \in JobStatus |-> s \in {"successful", "complete_with_errors", "failed", "canceled"}]

terminalStates == {s \in JobStatus : finalType[s]}

statesToDefaultMessages ==
  [accepted |-> "The job has been accepted and is waiting to be processed",
   running |-> "The job is being processed",
   running_with_errors |-> "The job is being processed, but some items have failed processing",
   successful |-> "The job has completed successfully",
   complete_with_errors |-> "The job has completed with errors. See the errors field for more details",
   failed |-> "The job failed with an unknown error",
   canceled |-> "The job was canceled",
   previewing |-> "The job is generating a preview before auto-pausing",
   paused |-> "The job is paused and may be resumed using the provided link"]

\* stateMachine.transition(currentStatus, event): the machine has no actions
\* and no context, so the resulting State is `changed` exactly when its value
\* differs from the value it was resolved from; an event with no entry in the
\* state's `on` table leaves the value as it is.
transition(currentStatus, event) ==
  LET on == stateMachine[currentStatus]
      value == IF event \in DOMAIN on THEN on[event] ELSE currentStatus
  IN [value |-> value, changed |-> value # currentStatus]

canTransitionNoChanged(currentStatus, desiredStatus, event) ==
  transition(currentStatus, event).value = desiredStatus

canTransition(currentStatus, desiredStatus, event) ==
  LET state == transition(currentStatus, event)
  IN state.changed /\ state.value = desiredStatus

validateTransitionNeverThrows(currentStatus, desiredStatus, event) == FALSE

\* validateTransition: TRUE when it throws ConflictError
validateTransition(currentStatus, desiredStatus, event) ==
  ~canTransition(currentStatus, desiredStatus, event)

\* ------------------------------------------------------------------------
\* The Job object
\* ------------------------------------------------------------------------
\* statesToMessages with no entry at all
NoMessages == [s \in JobStatus |-> Undefined]

\* customer-supplied messages used as inputs
CustomMessages == {"m1"}
MessageArgs == CustomMessages \cup {Undefined}

Falsy(message) == message \in {Undefined, ""}

\* a caller that holds no Job object
NoJob == [status |-> Undefined]

getMessage(j, status) ==
  IF ~Falsy(j.statesToMessages[status])
    THEN j.statesToMessages[status]
    ELSE statesToDefaultMessages[status]

setMessageOfEveryStatus(j, message, status) ==
  IF Falsy(message) THEN j
  ELSE [j EXCEPT !.statesToMessages = [s \in JobStatus |-> message]]

setMessage(j, message, status) ==
  IF Falsy(message) THEN j
  ELSE [j EXCEPT !.statesToMessages[status] = message]

updateStatusNoForce(j, status, message) ==
  LET j1 == [j EXCEPT !.status = status]
  IN IF ~Falsy(message) THEN setMessage(j1, message, j1.status) ELSE j1

updateStatus(j, status, message) ==
  LET j1 == [j EXCEPT !.status = status]
      j2 == IF ~Falsy(message) THEN setMessage(j1, message, j1.status) ELSE j1
  IN IF j2.status \in {"successful", "complete_with_errors"}
       THEN [j2 EXCEPT !.progress = 100]
       ELSE j2

\* the result of a call on a Job object: the object afterwards and whether
\* the call threw ConflictError
Threw(j) == [threw |-> TRUE, job |-> j]
Returned(j) == [threw |-> FALSE, job |-> j]

\* the request URL of a job built without one of the request inputs
DefaultRequest == "http://harmony/r"

\* new Job(fields) for a record that does not come from the database
\* (no createdAt, no message): originalStatus stays unassigned
NewJobObject(status, progress, labels) ==
  LET j0 == [status |-> Undefined, originalStatus |-> Undefined, progress |-> 0,
             batchesCompleted |-> 0, statesToMessages |-> NoMessages,
             id |-> 0, links |-> <<>>, labels |-> labels,
             request |-> DefaultRequest, createdAt |-> 0,
             destination_url |-> Undefined]
      j1 == updateStatus(j0, status, Undefined)
  IN [j1 EXCEPT !.progress = progress]

\* new Job(row) for a row of the jobs table: the message column holds the
\* serialized statesToMessages, createdAt is set
LoadedJobObject(row, links, labels) ==
  LET j0 == [status |-> row.status, originalStatus |-> Undefined, progress |-> 0,
             batchesCompleted |-> 0, statesToMessages |-> row.message,
             id |-> row.id, links |-> links, labels |-> labels,
             request |-> row.request, createdAt |-> row.createdAt,
             destination_url |-> row.destination_url]
      initialMessage == getMessage(j0, j0.status)
      j1 == updateStatus(j0, row.status, initialMessage)
  IN [j1 EXCEPT !.progress = row.progress,
                !.batchesCompleted = row.batchesCompleted,
                !.originalStatus = j1.status]

\* validateStatus: TRUE when it throws ConflictError
validateStatusNoBarrier(j) == FALSE

validateStatus(j) == j.originalStatus \in terminalStates

pause(j) ==
  IF validateTransition(j.status, "paused", "PAUSE") THEN Threw(j)
  ELSE Returned(updateStatus(j, "paused", getMessage(j, "paused")))

resumeWrongEvent(j) ==
  IF validateTransition(j.status, "running", "SKIP_PREVIEW") THEN Threw(j)
  ELSE Returned(updateStatus(j, "running", getMessage(j, "running")))

resume(j) ==
  IF validateTransition(j.status, "running", "RESUME") THEN Threw(j)
  ELSE Returned(updateStatus(j, "running", getMessage(j, "running")))

skipPreview(j) ==
  IF validateTransition(j.status, "running", "SKIP_PREVIEW") THEN Threw(j)
  ELSE Returned(updateStatus(j, "running", getMessage(j, "running")))

\* fail and cancel default their message argument to the status default
fail(j, message) ==
  LET m == IF message = Undefined THEN statesToDefaultMessages["failed"] ELSE message
  IN IF validateTransition(j.status, "failed", "FAIL") THEN Threw(j)
     ELSE Returned(updateStatus(j, "failed", m))

cancelNoValidate(j, message) ==
  LET m == IF message = Undefined THEN statesToDefaultMessages["canceled"] ELSE message
  IN Returned(updateStatus(j, "canceled", m))

cancel(j, message) ==
  LET m == IF message = Undefined THEN statesToDefaultMessages["canceled"] ELSE message
  IN IF validateTransition(j.status, "canceled", "CANCEL") THEN Threw(j)
     ELSE Returned(updateStatus(j, "canceled", m))

succeed(j, message) ==
  IF validateTransition(j.status, "successful", "COMPLETE") THEN Threw(j)
  ELSE Returned(updateStatus(j, "successful", message))

complete_with_errors(j, message) ==
  IF validateTransition(j.status, "complete_with_errors", "COMPLETE_WITH_ERRORS") THEN Threw(j)
  ELSE Returned(updateStatus(j, "complete_with_errors", message))

completeBatch(j) == [j EXCEPT !.batchesCompleted = @ + 1]

\* a link a caller builds: it has no id until save inserts it
NewLink == [id |-> 0, href |-> "h1"]

addLink(j, link) == [j EXCEPT !.links = Append(@, link)]

\* progress_weight is a positive real: it is counted in units of 1 / WeightDen
WeightDen == 2

\* a workflow step as updateProgress reads it after step.updateProgress:
\* progress_weight (the weights 1 and 3) and progress = progressNum / StepProgressDen
StepWeights == {WeightDen, 3 * WeightDen}

WorkflowSteps ==
  [progress_weight : StepWeights, progressNum : 0..StepProgressDen]

StepSeqs == UNION {[1..n -> WorkflowSteps] : n \in 0..MaxSteps}

RECURSIVE SumWeights(_)
SumWeights(steps) ==
  IF steps = <<>> THEN 0
  ELSE Head(steps).progress_weight + SumWeights(Tail(steps))

\* sum of progress_weight * progress, in units of 1 / (WeightDen * StepProgressDen)
RECURSIVE SumProgress(_)
SumProgress(steps) ==
  IF steps = <<>> THEN 0
  ELSE Head(steps).progress_weight * Head(steps).progressNum + SumProgress(Tail(steps))

Min(a, b) == IF a < b THEN a ELSE b
Max(a, b) == IF a > b THEN a ELSE b

\* the candidate progress computed by updateProgress
rollup(steps) ==
  LET sumOfWeights == IF SumWeights(steps) > 0 THEN SumWeights(steps) ELSE WeightDen
      progSum == Max(0, SumProgress(steps))
  IN Min(progSum \div (StepProgressDen * sumOfWeights), 99)

updateProgressNoGuard(j, steps) == [j EXCEPT !.progress = rollup(steps)]

updateProgress(j, steps) ==
  LET progress == rollup(steps)
  IN IF j.progress < progress THEN [j EXCEPT !.progress = progress] ELSE j

\* ------------------------------------------------------------------------
\* State
\* ------------------------------------------------------------------------
VARIABLES
  job,        \* job[p]: the Job object caller p holds, or NoJob
  dbJob,      \* the job's row of the jobs table (id = 0: no row yet)
  dbLinks,    \* the rows of job_links for the job: row i holds the href of link i
  dbLabels,   \* labels joined to the job
  userWork,   \* userWork[<<j, s>>]: the user_work row of job j and service s
  workItems,  \* workItems[<<j, s>>]: the work items of job j for service s, by status
  pick,       \* pick[p]: what dispatcher p selected so far
  ret,        \* the value the last query returned
  lock,       \* caller holding the exclusive lock on the jobs row, 0 if none
  pc,         \* pc[p]: where caller p stands in its transaction
  last,       \* the last call made: operation, caller, whether it threw
  ct,         \* the last canTransition query and its result
  now,        \* the clock of the database, in minutes
  workflowSteps,        \* the <<j, s>> that have a row of workflow_steps
  reaper,               \* the work reaper: its loop and the ids it selected
  providerIdsSnapshot,  \* the module-level snapshot of provider ids
  dbProviders,          \* the provider ids the jobs table holds
  loads,                \* how often getUniqueProviderIds was called and has failed
  got,                  \* got[p]: the state of p's getProviderIdsSnapshot call
  qs                    \* the locals of the querySource call in progress

reaperVars == <<now, workflowSteps, reaper>>

snapshotVars == <<providerIdsSnapshot, dbProviders, loads, got, qs>>

vars == <<job, dbJob, dbLinks, dbLabels, userWork, workItems, pick, ret,
          lock, pc, last, ct, reaperVars, snapshotVars>>

NoRow == [id |-> 0, status |-> Undefined, progress |-> 0, batchesCompleted |-> 0,
          message |-> NoMessages, request |-> "", createdAt |-> 0, updatedAt |-> 0,
          destination_url |-> Undefined]

\* the loops of one WorkReaper: every call of start() runs a loop of its own
ReaperLoops == {1, 2}
FirstLoop == 1

\* the work reaper before start(): the flag of the instance and, for every
\* loop, its position, the ids it selected and whether stop() was called
\* while it was running
NoReaper == [isRunning |-> FALSE,
             pc |-> [l \in ReaperLoops |-> "stopped"],
             stopCalled |-> [l \in ReaperLoops |-> FALSE],
             workItemIds |-> [l \in ReaperLoops |-> {}],
             workflowStepIds |-> [l \in ReaperLoops |-> {}]]

\* no call of querySource in progress
NoQuerySource == [pc |-> "idle", collection |-> Undefined, pageSize |-> 0,
                  maxPages |-> 0, page |-> 0, done |-> FALSE, queries |-> <<>>,
                  result |-> <<>>]

\* let providerIdsSnapshot: string[], before it is assigned
NoSnapshot == [defined |-> FALSE, ids |-> {}]

\* a caller that is not inside getProviderIdsSnapshot
NoSnapshotCall == [pc |-> "idle", result |-> NoSnapshot]

NoUserWork == [exists |-> FALSE, username |-> Undefined, ready_count |-> 0,
               running_count |-> 0, last_worked |-> 0]

NoWorkItems == [ready |-> 0, running |-> 0]

NoPick == [serviceID |-> 0, username |-> Undefined, jobID |-> Undefined]

NoQuery == [current |-> Undefined, desired |-> Undefined, event |-> Undefined,
            result |-> FALSE]

Call(op, p, threw) == [op |-> op, caller |-> p, threw |-> threw]

Init ==
  /\ job = [p \in Callers |-> NoJob]
  /\ dbJob = NoRow
  /\ dbLinks = <<>>
  /\ dbLabels = {}
  /\ userWork = [k \in Jobs \X Services |-> NoUserWork]
  /\ workItems = [k \in Jobs \X Services |-> NoWorkItems]
  /\ pick = [p \in Callers |-> NoPick]
  /\ ret = Undefined
  /\ lock = 0
  /\ pc = [p \in Callers |-> "idle"]
  /\ last = Call("init", 0, FALSE)
  /\ ct = NoQuery
  /\ now = 1
  /\ workflowSteps = {}
  /\ reaper = NoReaper
  /\ providerIdsSnapshot = NoSnapshot
  /\ dbProviders = {}
  /\ loads = [issued |-> 0, failed |-> 0]
  /\ got = [p \in Callers |-> NoSnapshotCall]
  /\ qs = NoQuerySource

\* ------------------------------------------------------------------------
\* canTransition called on its own
\* ------------------------------------------------------------------------
CanTransitionCall ==
  /\ \E c \in JobStatus, d \in JobStatus, e \in JobEvent :
       ct' = [current |-> c, desired |-> d, event |-> e,
              result |-> canTransition(c, d, e)]
  /\ UNCHANGED <<job, dbJob, dbLinks, dbLabels, userWork, workItems, pick, ret,
                 lock, pc, last, reaperVars, snapshotVars>>

\* ------------------------------------------------------------------------
\* Operations on a Job object
\* ------------------------------------------------------------------------
InitialProgress == {0, 10}
LabelSets == {{}, {"l1"}}

UNCHANGED_DB == UNCHANGED <<dbJob, dbLinks, dbLabels, userWork, lock, ct, reaperVars, snapshotVars>>

\* the job request is created once: new Job({ status, progress, labels })
NewJob(p, status, progress, labels) ==
  /\ dbJob.id = 0
  /\ \A q \in Callers : job[q] = NoJob
  /\ job' = [job EXCEPT ![p] = NewJobObject(status, progress, labels)]
  /\ last' = Call("new", p, FALSE)
  /\ UNCHANGED_DB

\* the outcome r of a call by p of operation op on its Job object
Outcome(p, op, r) ==
  /\ job' = [job EXCEPT ![p] = r.job]
  /\ last' = Call(op, p, r.threw)
  /\ UNCHANGED_DB

Pause(p) == job[p] # NoJob /\ Outcome(p, "pause", pause(job[p]))

Resume(p) == job[p] # NoJob /\ Outcome(p, "resume", resume(job[p]))

SkipPreview(p) == job[p] # NoJob /\ Outcome(p, "skipPreview", skipPreview(job[p]))

Fail(p, message) == job[p] # NoJob /\ Outcome(p, "fail", fail(job[p], message))

Cancel(p, message) == job[p] # NoJob /\ Outcome(p, "cancel", cancel(job[p], message))

Succeed(p, message) == job[p] # NoJob /\ Outcome(p, "succeed", succeed(job[p], message))

CompleteWithErrors(p, message) ==
  job[p] # NoJob /\ Outcome(p, "complete_with_errors", complete_with_errors(job[p], message))

UpdateStatus(p, status, message) ==
  job[p] # NoJob /\ Outcome(p, "updateStatus", Returned(updateStatus(job[p], status, message)))

UpdateProgress(p, steps) ==
  job[p] # NoJob /\ Outcome(p, "updateProgress", Returned(updateProgress(job[p], steps)))

CompleteBatch(p) ==
  /\ job[p] # NoJob
  /\ job[p].batchesCompleted < MaxBatches
  /\ Outcome(p, "completeBatch", Returned(completeBatch(job[p])))

AddLink(p) ==
  /\ job[p] # NoJob
  /\ Len(job[p].links) < MaxLinks
  /\ Outcome(p, "addLink", Returned(addLink(job[p], NewLink)))

\* ------------------------------------------------------------------------
\* Loading and saving
\* ------------------------------------------------------------------------
TEXT_LIMIT == 4096
reservedMessageChars == 1000

truncateString(s, n) == IF Len(s) > n THEN SubSeq(s, 1, n) ELSE s

\* the links of the job as getLinksForJob returns them: every row has its id
StoredLinks == [i \in 1..Len(dbLinks) |-> [id |-> i, href |-> dbLinks[i]]]

\* Job.byJobID(tx, jobID, includeLinks = true, includeLabels = true, lock = false)
Load(p) ==
  /\ dbJob.id # 0
  /\ job' = [job EXCEPT ![p] = LoadedJobObject(dbJob, StoredLinks, dbLabels)]
  /\ last' = Call("load", p, FALSE)
  /\ UNCHANGED_DB

\* SELECT ... FOR UPDATE by p returns once no other transaction holds the row
rowLockFreeNoWait(p) == TRUE

rowLockFree(p) == lock \in {0, p}

\* Job.byJobID(tx, jobID, true, true, lock = true)
LoadForUpdate(p) ==
  /\ dbJob.id # 0
  /\ rowLockFree(p)
  /\ lock' = p
  /\ job' = [job EXCEPT ![p] = LoadedJobObject(dbJob, StoredLinks, dbLabels)]
  /\ last' = Call("loadForUpdate", p, FALSE)
  /\ UNCHANGED <<dbJob, dbLinks, dbLabels, userWork, ct, reaperVars, snapshotVars>>

\* the transaction of p ends: its row lock is released and the Job object
\* read inside the transaction goes out of scope
EndTransaction(p) ==
  /\ lock' = IF lock = p THEN 0 ELSE lock
  /\ job' = [job EXCEPT ![p] = NoJob]
  /\ last' = Call("endTransaction", p, FALSE)
  /\ UNCHANGED <<dbJob, dbLinks, dbLabels, userWork, ct, reaperVars, snapshotVars>>

RECURSIVE CountNew(_)
CountNew(links) ==
  IF links = <<>> THEN 0
  ELSE (IF Head(links).id = 0 THEN 1 ELSE 0) + CountNew(Tail(links))

\* the ids the links carry once every link without an id has been inserted
SavedLinks(links, base) ==
  [i \in 1..Len(links) |->
     IF links[i].id # 0 THEN links[i]
     ELSE [links[i] EXCEPT !.id = base + CountNew(SubSeq(links, 1, i))]]

\* the links of the job that save hands to link.save: those without an id
linksToSaveAll(links) == links

RECURSIVE linksToSave(_)
linksToSave(links) ==
  IF links = <<>> THEN <<>>
  ELSE (IF Head(links).id = 0 THEN <<Head(links)>> ELSE <<>>)
         \o linksToSave(Tail(links))

\* link.save(tx) of every link handed over: a link without an id is inserted
\* as a new row, a link with an id is written over its row
RECURSIVE SaveLinks(_, _)
SaveLinks(rows, links) ==
  IF links = <<>> THEN rows
  ELSE LET link == Head(links)
       IN SaveLinks(IF link.id = 0 THEN Append(rows, link.href)
                    ELSE [rows EXCEPT ![link.id] = link.href],
                    Tail(links))

\* the Job object once save has run to its end
SavedJobKeepingRequest(j) ==
  LET truncatedFailureMessage ==
        truncateString(getMessage(j, "failed"), TEXT_LIMIT - reservedMessageChars)
      j1 == setMessage(j, truncatedFailureMessage, "failed")
  IN [j1 EXCEPT !.id = IF j.id = 0 THEN 1 ELSE j.id,
                !.createdAt = IF j.createdAt = 0 THEN now ELSE j.createdAt,
                !.links = SavedLinks(j.links, Len(dbLinks))]

SavedJob(j) ==
  LET truncatedFailureMessage ==
        truncateString(getMessage(j, "failed"), TEXT_LIMIT - reservedMessageChars)
      j1 == setMessage(j, truncatedFailureMessage, "failed")
  IN [j1 EXCEPT !.id = IF j.id = 0 THEN 1 ELSE j.id,
                !.request = truncateString(j.request, TEXT_LIMIT),
                !.createdAt = IF j.createdAt = 0 THEN now ELSE j.createdAt,
                !.links = SavedLinks(j.links, Len(dbLinks))]

\* the row super.save writes
SavedRow(j) ==
  [id |-> j.id, status |-> j.status, progress |-> j.progress,
   batchesCompleted |-> j.batchesCompleted, message |-> j.statesToMessages,
   request |-> j.request, createdAt |-> j.createdAt, updatedAt |-> now,
   destination_url |-> j.destination_url]

\* the database writes of save(tx) for Job object j
WriteJob(j) ==
  /\ dbJob' = SavedRow(SavedJob(j))
  /\ dbLinks' = SaveLinks(dbLinks, linksToSave(j.links))
  /\ dbLabels' = j.labels

\* the UPDATE of save waits while another transaction holds the row lock
Save(p) ==
  /\ job[p] # NoJob
  /\ rowLockFree(p)
  /\ IF validateStatus(job[p])
       THEN /\ last' = Call("save", p, TRUE)
            /\ UNCHANGED <<job, dbJob, dbLinks, dbLabels>>
       ELSE /\ WriteJob(job[p])
            /\ job' = [job EXCEPT ![p] = SavedJob(job[p])]
            /\ last' = Call("save", p, FALSE)
  /\ UNCHANGED <<userWork, lock, ct, reaperVars, snapshotVars>>

\* setReadyCountToZero(tx, jobID)
setReadyCountToZeroFirstRow(uw, jobID) ==
  [k \in DOMAIN uw |->
     IF uw[k].exists /\ k = <<jobID, 1>> THEN [uw[k] EXCEPT !.ready_count = 0]
     ELSE uw[k]]

setReadyCountToZero(uw, jobID) ==
  [k \in DOMAIN uw |->
     IF uw[k].exists /\ k[1] = jobID THEN [uw[k] EXCEPT !.ready_count = 0]
     ELSE uw[k]]

PauseAndSave(p) ==
  /\ job[p] # NoJob
  /\ rowLockFree(p)
  /\ IF validateTransition(job[p].status, "paused", "PAUSE")
       THEN /\ last' = Call("pauseAndSave", p, TRUE)
            /\ UNCHANGED <<job, dbJob, dbLinks, dbLabels, userWork>>
       ELSE LET j1 == updateStatus(job[p], "paused", getMessage(job[p], "paused"))
            IN IF validateStatus(j1)
                 THEN /\ job' = [job EXCEPT ![p] = j1]
                      /\ last' = Call("pauseAndSave", p, TRUE)
                      /\ UNCHANGED <<dbJob, dbLinks, dbLabels, userWork>>
                 ELSE /\ WriteJob(j1)
                      /\ job' = [job EXCEPT ![p] = SavedJob(j1)]
                      /\ userWork' = setReadyCountToZero(userWork, TheJob)
                      /\ last' = Call("pauseAndSave", p, FALSE)
  /\ UNCHANGED <<lock, ct, reaperVars, snapshotVars>>

\* ------------------------------------------------------------------------
\* user_work rows of the job
\* ------------------------------------------------------------------------
\* a UserWork record saved for (jobID, serviceID) with the generic save of a
\* record
InsertUserWork(jobID, serviceID, readyCount, runningCount, lastWorked) ==
  /\ ~userWork[<<jobID, serviceID>>].exists
  /\ userWork' = [userWork EXCEPT ![<<jobID, serviceID>>] =
                    [exists |-> TRUE, username |-> UserOf[jobID],
                     ready_count |-> readyCount, running_count |-> runningCount,
                     last_worked |-> lastWorked]]
  /\ last' = Call("insertUserWork", 0, FALSE)
  /\ UNCHANGED <<job, dbJob, dbLinks, dbLabels, lock, ct, reaperVars, snapshotVars>>

\* incrementReadyCount(tx, jobID, serviceID, additionalReadyCount): the rows
\* of the table afterwards
incrementReadyCount(uw, jobID, serviceID, additionalReadyCount) ==
  [uw EXCEPT ![<<jobID, serviceID>>] =
     IF @.exists THEN [@ EXCEPT !.ready_count = @ + additionalReadyCount] ELSE @]

IncrementReadyCount(jobID, serviceID, additionalReadyCount) ==
  /\ userWork[<<jobID, serviceID>>].ready_count + additionalReadyCount <= MaxReady
  /\ userWork' = incrementReadyCount(userWork, jobID, serviceID, additionalReadyCount)
  /\ last' = Call("incrementReadyCount", 0, FALSE)
  /\ UNCHANGED <<job, dbJob, dbLinks, dbLabels, lock, ct, reaperVars, snapshotVars>>

\* the keys of the rows of table uw
Rows(uw) == {k \in DOMAIN uw : uw[k].exists}

RECURSIVE SumRunningCount(_, _)
SumRunningCount(uw, keys) ==
  IF keys = {} THEN 0
  ELSE LET k == CHOOSE x \in keys : TRUE
       IN uw[k].running_count + SumRunningCount(uw, keys \ {k})

MaxLastWorked(uw, keys) ==
  CHOOSE t \in {uw[k].last_worked : k \in keys} :
    \A k \in keys : uw[k].last_worked <= t

\* the subquery of getNextUsernameForWork: the distinct usernames of the rows
\* of the service with ready_count > 0
eligibleUsernamesAnyService(uw, serviceID) ==
  {uw[k].username : k \in {x \in Rows(uw) : uw[x].ready_count > 0}}

eligibleUsernames(uw, serviceID) ==
  {uw[k].username :
     k \in {x \in Rows(uw) : x[2] = serviceID /\ uw[x].ready_count > 0}}

\* the columns rc and lw of the group of username in getNextUsernameForWork:
\* the group holds every row of the user, whatever its service
GroupOf(uw, username) ==
  LET keys == {k \in Rows(uw) : uw[k].username = username}
  IN [rc |-> SumRunningCount(uw, keys), lw |-> MaxLastWorked(uw, keys)]

\* group a is ordered before group b, or level with it, by rc asc, lw asc
OrderedBeforeNoTieBreak(a, b) == a.rc <= b.rc

OrderedBefore(a, b) == a.rc < b.rc \/ (a.rc = b.rc /\ a.lw <= b.lw)

\* getNextUsernameForWork(tx, serviceID): the values it can return; groups
\* level on both columns come in an order the database chooses
getNextUsernameForWork(uw, serviceID) ==
  LET usernames == eligibleUsernames(uw, serviceID)
  IN IF usernames = {} THEN {Undefined}
     ELSE {u \in usernames :
             \A v \in usernames : OrderedBefore(GroupOf(uw, u), GroupOf(uw, v))}

\* the rows getNextJobIdForUsernameAndService selects from
readyRowsIgnoringCount(uw, serviceID, username) ==
  {k \in Rows(uw) : uw[k].username = username /\ k[2] = serviceID}

readyRows(uw, serviceID, username) ==
  {k \in Rows(uw) :
     uw[k].username = username /\ k[2] = serviceID /\ uw[k].ready_count > 0}

\* getNextJobIdForUsernameAndService(tx, serviceID, username): the values it
\* can return; with no row selected, results is undefined and results.job_id
\* throws a TypeError
getNextJobIdForUsernameAndService(uw, serviceID, username) ==
  LET keys == readyRows(uw, serviceID, username)
  IN IF keys = {} THEN {Threw(Undefined)}
     ELSE {Returned(k[1]) : k \in {x \in keys :
             \A y \in keys : uw[x].last_worked <= uw[y].last_worked}}

incrementRunningOnly(uw, jobID, serviceID) ==
  [uw EXCEPT ![<<jobID, serviceID>>] =
     IF @.exists THEN [@ EXCEPT !.running_count = @ + 1] ELSE @]

incrementRunningAndDecrementReadyCounts(uw, jobID, serviceID) ==
  [uw EXCEPT ![<<jobID, serviceID>>] =
     IF @.exists THEN [@ EXCEPT !.running_count = @ + 1, !.ready_count = @ - 1]
     ELSE @]

incrementReadyAndDecrementRunningCounts(uw, jobID, serviceID) ==
  [uw EXCEPT ![<<jobID, serviceID>>] =
     IF @.exists THEN [@ EXCEPT !.ready_count = @ + 1, !.running_count = @ - 1]
     ELSE @]

decrementRunningCount(uw, jobID, serviceID) ==
  [uw EXCEPT ![<<jobID, serviceID>>] =
     IF @.exists THEN [@ EXCEPT !.running_count = @ - 1] ELSE @]

\* deleteOrphanedRows(tx): the table afterwards and the number it returns
deleteOrphanedRowsReadyOnly(uw) ==
  LET keys == {k \in Rows(uw) : uw[k].ready_count = 0}
  IN [table |-> [k \in DOMAIN uw |-> IF k \in keys THEN NoUserWork ELSE uw[k]],
      numDeleted |-> Cardinality(keys)]

deleteOrphanedRows(uw) ==
  LET keys == {k \in Rows(uw) : uw[k].ready_count = 0 /\ uw[k].running_count = 0}
  IN [table |-> [k \in DOMAIN uw |-> IF k \in keys THEN NoUserWork ELSE uw[k]],
      numDeleted |-> Cardinality(keys)]

\* the queries and the clean-up called on their own by caller p
GetNextUsernameForWork(p, serviceID) ==
  /\ \E username \in getNextUsernameForWork(userWork, serviceID) :
       /\ ret' = username
       /\ pick' = [pick EXCEPT ![p] = [serviceID |-> serviceID, username |-> username,
                                       jobID |-> Undefined]]
  /\ last' = Call("getNextUsernameForWork", p, FALSE)
  /\ UNCHANGED <<job, dbJob, dbLinks, dbLabels, userWork, workItems, lock, ct, reaperVars, snapshotVars>>

GetNextJobIdForUsernameAndService(p, serviceID, username) ==
  /\ \E r \in getNextJobIdForUsernameAndService(userWork, serviceID, username) :
       /\ ret' = r.job
       /\ pick' = [pick EXCEPT ![p] = [serviceID |-> serviceID, username |-> username,
                                       jobID |-> r.job]]
       /\ last' = Call("getNextJobIdForUsernameAndService", p, r.threw)
  /\ UNCHANGED <<job, dbJob, dbLinks, dbLabels, userWork, workItems, lock, ct, reaperVars, snapshotVars>>

DeleteOrphanedRows ==
  /\ userWork' = deleteOrphanedRows(userWork).table
  /\ ret' = deleteOrphanedRows(userWork).numDeleted
  /\ last' = Call("deleteOrphanedRows", 0, FALSE)
  /\ UNCHANGED <<job, dbJob, dbLinks, dbLabels, workItems, pick, lock, ct, reaperVars, snapshotVars>>

\* ------------------------------------------------------------------------
\* Work items and the dispatchers of a service
\* ------------------------------------------------------------------------
\* a work item is queued for (jobID, serviceID), whose row exists: the item is
\* ready and incrementReadyCount counts it
CreateWorkItem(jobID, serviceID) ==
  LET k == <<jobID, serviceID>>
  IN /\ userWork[k].exists
     /\ workItems[k].ready < MaxReady
     /\ workItems' = [workItems EXCEPT ![k].ready = @ + 1]
     /\ userWork' = incrementReadyCount(userWork, jobID, serviceID, 1)
     /\ last' = Call("createWorkItem", 0, FALSE)
     /\ UNCHANGED <<job, dbJob, dbLinks, dbLabels, pick, ret, lock, pc, ct, reaperVars, snapshotVars>>

\* a running work item completes: decrementRunningCount
CompleteWorkItem(jobID, serviceID) ==
  LET k == <<jobID, serviceID>>
  IN /\ workItems[k].running > 0
     /\ workItems' = [workItems EXCEPT ![k].running = @ - 1]
     /\ userWork' = decrementRunningCount(userWork, jobID, serviceID)
     /\ last' = Call("completeWorkItem", 0, FALSE)
     /\ UNCHANGED <<job, dbJob, dbLinks, dbLabels, pick, ret, lock, pc, ct, reaperVars, snapshotVars>>

\* a running work item is queued again for a retry:
\* incrementReadyAndDecrementRunningCounts
RetryWorkItem(jobID, serviceID) ==
  LET k == <<jobID, serviceID>>
  IN /\ workItems[k].running > 0
     /\ workItems[k].ready < MaxReady
     /\ workItems' = [workItems EXCEPT ![k].running = @ - 1, ![k].ready = @ + 1]
     /\ userWork' = incrementReadyAndDecrementRunningCounts(userWork, jobID, serviceID)
     /\ last' = Call("retryWorkItem", 0, FALSE)
     /\ UNCHANGED <<job, dbJob, dbLinks, dbLabels, pick, ret, lock, pc, ct, reaperVars, snapshotVars>>

\* the row of a (jobID, serviceID) that has no work items yet
InsertEmptyUserWork(jobID, serviceID, lastWorked) ==
  /\ workItems[<<jobID, serviceID>>] = NoWorkItems
  /\ InsertUserWork(jobID, serviceID, 0, 0, lastWorked)
  /\ UNCHANGED <<workItems, pick, ret, pc>>

\* nextWorkItem(serviceID) of dispatcher p, step 1: nextUser
DispatchNextUser(p, serviceID) ==
  /\ pc[p] = "idle"
  /\ GetNextUsernameForWork(p, serviceID)
  /\ pc' = [pc EXCEPT ![p] = IF ret' = Undefined THEN "idle" ELSE "gotUser"]

\* step 2: nextJobId for the user chosen
DispatchNextJob(p) ==
  /\ pc[p] = "gotUser"
  /\ GetNextJobIdForUsernameAndService(p, pick[p].serviceID, pick[p].username)
  /\ pc' = [pc EXCEPT ![p] = IF last'.threw THEN "idle" ELSE "gotJob"]

\* step 3: the dispatcher claims a ready work item of the job chosen and calls
\* incrementRunningAndDecrementReadyCounts; with no ready work item left it
\* abandons the claim
DispatchClaim(p) ==
  LET k == <<pick[p].jobID, pick[p].serviceID>>
  IN /\ pc[p] = "gotJob"
     /\ IF workItems[k].ready > 0
          THEN /\ workItems[k].running < MaxRunning
               /\ workItems' = [workItems EXCEPT ![k].ready = @ - 1,
                                                 ![k].running = @ + 1]
               /\ userWork' = incrementRunningAndDecrementReadyCounts(
                                 userWork, pick[p].jobID, pick[p].serviceID)
               /\ last' = Call("claim", p, FALSE)
          ELSE /\ last' = Call("abandon", p, FALSE)
               /\ UNCHANGED <<workItems, userWork>>
     /\ pc' = [pc EXCEPT ![p] = "idle"]
     /\ UNCHANGED <<job, dbJob, dbLinks, dbLabels, pick, ret, lock, ct, reaperVars, snapshotVars>>

\* ------------------------------------------------------------------------
\* Specifications
\* ------------------------------------------------------------------------
\* the caller of the single-caller specifications
Main == CHOOSE p \in Callers : TRUE

\* a step of a caller that runs no multi-step transaction
Step(A) == A /\ UNCHANGED <<pc, workItems, pick, ret>>

\* one Job object and every operation on it, in any order
Next ==
  \/ \E status \in JobStatus, progress \in InitialProgress :
       Step(NewJob(Main, status, progress, {}))
  \/ Step(Pause(Main))
  \/ Step(Resume(Main))
  \/ Step(SkipPreview(Main))
  \/ \E message \in MessageArgs : Step(Fail(Main, message))
  \/ Step(Cancel(Main, Undefined))
  \/ Step(Succeed(Main, Undefined))
  \/ Step(CompleteWithErrors(Main, Undefined))
  \/ \E status \in JobStatus : Step(UpdateStatus(Main, status, Undefined))
  \/ \E steps \in StepSeqs : Step(UpdateProgress(Main, steps))
  \/ Step(CompleteBatch(Main))

Spec == Init /\ [][Next]_vars

\* a job request created as accepted with progress 0 and every operation that
\* sets its status or its progress, in any order
NextLifecycle ==
  \/ Step(NewJob(Main, "accepted", 0, {}))
  \/ Step(Pause(Main))
  \/ Step(Resume(Main))
  \/ Step(SkipPreview(Main))
  \/ Step(Fail(Main, Undefined))
  \/ Step(Cancel(Main, Undefined))
  \/ Step(Succeed(Main, Undefined))
  \/ Step(CompleteWithErrors(Main, Undefined))
  \/ \E status \in JobStatus : Step(UpdateStatus(Main, status, Undefined))
  \/ \E steps \in StepSeqs : Step(UpdateProgress(Main, steps))

SpecLifecycle == Init /\ [][NextLifecycle]_vars

\* the statuses callers set with updateStatus rather than with a mutator
DirectStatuses == {"running", "previewing", "running_with_errors"}

\* one caller pausing the job while work is queued for it
NextPause ==
  \/ Step(NewJob(Main, "accepted", 0, {}))
  \/ Step(Pause(Main))
  \/ Step(Resume(Main))
  \/ Step(SkipPreview(Main))
  \/ Step(Fail(Main, Undefined))
  \/ Step(Cancel(Main, Undefined))
  \/ Step(Succeed(Main, Undefined))
  \/ Step(CompleteWithErrors(Main, Undefined))
  \/ \E status \in DirectStatuses : Step(UpdateStatus(Main, status, Undefined))
  \/ Step(PauseAndSave(Main))
  \/ \E s \in Services : Step(InsertUserWork(TheJob, s, 0, 0, 1))
  \/ \E s \in Services : Step(IncrementReadyCount(TheJob, s, 1))

SpecPause == Init /\ [][NextPause]_vars

\* one caller creating, loading, finishing and saving the job
NextStore ==
  \/ Step(NewJob(Main, "accepted", 0, {"l1"}))
  \/ Step(Load(Main))
  \/ Step(Fail(Main, Undefined))
  \/ Step(Cancel(Main, Undefined))
  \/ Step(Succeed(Main, Undefined))
  \/ Step(CompleteWithErrors(Main, Undefined))
  \/ \E status \in DirectStatuses : Step(UpdateStatus(Main, status, Undefined))
  \/ Step(AddLink(Main))
  \/ Step(Save(Main))

SpecStore == Init /\ [][NextStore]_vars

\* the job request is created and stored in one transaction
CreateJob(p, status) ==
  /\ dbJob.id = 0
  /\ \A q \in Callers : job[q] = NoJob
  /\ WriteJob(NewJobObject(status, 0, {}))
  /\ last' = Call("create", p, FALSE)
  /\ UNCHANGED <<job, userWork, lock, ct, reaperVars, snapshotVars>>

CreatableStatuses == {"accepted", "running", "previewing", "running_with_errors"}

\* callers that each run: read the row FOR UPDATE, one mutator, save, commit
TxBegin(p) ==
  /\ pc[p] = "idle"
  /\ LoadForUpdate(p)
  /\ pc' = [pc EXCEPT ![p] = "loaded"]
  /\ UNCHANGED <<workItems, pick, ret>>

TxMutate(p, A) ==
  /\ pc[p] = "loaded"
  /\ A
  /\ pc' = [pc EXCEPT ![p] = IF last'.threw THEN "aborted" ELSE "mutated"]
  /\ UNCHANGED <<workItems, pick, ret>>

TxSave(p) ==
  /\ pc[p] = "mutated"
  /\ Save(p)
  /\ pc' = [pc EXCEPT ![p] = IF last'.threw THEN "aborted" ELSE "saved"]
  /\ UNCHANGED <<workItems, pick, ret>>

TxEnd(p) ==
  /\ pc[p] \in {"saved", "aborted"}
  /\ EndTransaction(p)
  /\ pc' = [pc EXCEPT ![p] = "idle"]
  /\ UNCHANGED <<workItems, pick, ret>>

\* a transaction that reads the row without the lock: byJobID(tx, jobID)
TxBeginNoLock(p) ==
  /\ pc[p] = "idle"
  /\ Load(p)
  /\ pc' = [pc EXCEPT ![p] = "loaded"]
  /\ UNCHANGED <<workItems, pick, ret>>

NextLocked ==
  \/ \E p \in Callers, status \in CreatableStatuses : Step(CreateJob(p, status))
  \/ \E p \in Callers : TxBegin(p)
  \/ \E p \in Callers : TxMutate(p, Pause(p))
  \/ \E p \in Callers : TxMutate(p, Resume(p))
  \/ \E p \in Callers : TxMutate(p, SkipPreview(p))
  \/ \E p \in Callers : TxMutate(p, Fail(p, Undefined))
  \/ \E p \in Callers : TxMutate(p, Cancel(p, Undefined))
  \/ \E p \in Callers : TxMutate(p, Succeed(p, Undefined))
  \/ \E p \in Callers : TxMutate(p, CompleteWithErrors(p, Undefined))
  \/ \E p \in Callers : TxSave(p)
  \/ \E p \in Callers : TxEnd(p)

SpecLocked == Init /\ [][NextLocked]_vars

\* callers that load, change and save the job with no row lock
NextRace ==
  \/ \E p \in Callers : Step(CreateJob(p, "running"))
  \/ \E p \in Callers : Step(Load(p))
  \/ \E p \in Callers : Step(Pause(p))
  \/ \E p \in Callers : Step(Cancel(p, Undefined))
  \/ \E p \in Callers : Step(Succeed(p, Undefined))
  \/ \E p \in Callers : Step(Save(p))

SpecRace == Init /\ [][NextRace]_vars

\* workers that each load the job, roll its progress up and save it, reading
\* the row with or without the lock
NextProgress ==
  \/ \E p \in Callers : Step(CreateJob(p, "running"))
  \/ \E p \in Callers : TxBegin(p)
  \/ \E p \in Callers : TxBeginNoLock(p)
  \/ \E p \in Callers, steps \in StepSeqs : TxMutate(p, UpdateProgress(p, steps))
  \/ \E p \in Callers : TxSave(p)
  \/ \E p \in Callers : TxEnd(p)

SpecProgress == Init /\ [][NextProgress]_vars

\* the rows the table of the selection queries is filled with, and their counts
SelectRows == {k \in Jobs \X Services : k[2] = 1 \/ k = <<"j3", 2>>}
CountInputs == {0, 1}

\* a user_work table filled with rows of any content, then the selection
\* queries and the clean-up applied to it
NextSelect ==
  \/ \E k \in SelectRows, readyCount \in CountInputs, runningCount \in CountInputs,
        lastWorked \in Times :
       /\ last.op \in {"init", "insertUserWork"}
       /\ InsertUserWork(k[1], k[2], readyCount, runningCount, lastWorked)
       /\ UNCHANGED <<pc, workItems, pick, ret>>
  \/ \E serviceID \in Services :
       GetNextUsernameForWork(Main, serviceID) /\ UNCHANGED pc
  \/ \E serviceID \in Services, username \in Usernames :
       GetNextJobIdForUsernameAndService(Main, serviceID, username) /\ UNCHANGED pc
  \/ DeleteOrphanedRows /\ UNCHANGED pc

SpecSelect == Init /\ [][NextSelect]_vars

\* the service the dispatchers of the queue specifications poll
TheService == CHOOSE s \in Services : TRUE

\* the work items of the job for one service: queued, dispatched by concurrent
\* dispatchers, completed and retried, while the job is paused and orphaned
\* rows are cleaned up
NextQueue ==
  \/ Step(CreateJob(Main, "running"))
  \/ Step(Load(Main))
  \/ Step(PauseAndSave(Main))
  \/ InsertEmptyUserWork(TheJob, TheService, 1)
  \/ CreateWorkItem(TheJob, TheService)
  \/ \E p \in Callers : DispatchNextUser(p, TheService)
  \/ \E p \in Callers : DispatchNextJob(p)
  \/ \E p \in Callers : DispatchClaim(p)
  \/ CompleteWorkItem(TheJob, TheService)
  \/ RetryWorkItem(TheJob, TheService)
  \/ DeleteOrphanedRows /\ UNCHANGED pc

SpecQueue == Init /\ [][NextQueue]_vars

\* the jobs of two users queued for the service of one dispatcher
DispatchJobs == {"j1", "j2"}

\* a dispatcher that runs nextUser, nextJobId and the claim again and again
\* while work items are queued and running items complete; the rows are
\* inserted at different times
NextDispatch ==
  \/ \E j \in DispatchJobs, lastWorked \in Times :
       /\ \A k \in DOMAIN userWork :
            userWork[k].exists => userWork[k].last_worked # lastWorked
       /\ InsertEmptyUserWork(j, TheService, lastWorked)
  \/ \E j \in DispatchJobs : CreateWorkItem(j, TheService)
  \/ DispatchNextUser(Main, TheService)
  \/ DispatchNextJob(Main)
  \/ DispatchClaim(Main)
  \/ \E j \in DispatchJobs : CompleteWorkItem(j, TheService)

\* the dispatcher keeps polling and every running work item completes
SpecDispatch ==
  /\ Init
  /\ [][NextDispatch]_vars
  /\ WF_vars(DispatchNextUser(Main, TheService))
  /\ WF_vars(DispatchNextJob(Main))
  /\ WF_vars(DispatchClaim(Main))
  /\ \A j \in DispatchJobs : WF_vars(CompleteWorkItem(j, TheService))

\* canTransition applied to every (current, desired, event)
NextCanTransition == CanTransitionCall

SpecCanTransition == Init /\ [][NextCanTransition]_vars

\* the clock advances by a minute
Tick ==
  /\ now < MaxTime
  /\ now' = now + 1
  /\ last' = Call("tick", 0, FALSE)
  /\ UNCHANGED <<job, dbJob, dbLinks, dbLabels, userWork, workItems, pick, ret,
                 lock, pc, ct, workflowSteps, reaper, snapshotVars>>

\* ------------------------------------------------------------------------
\* Long texts
\* ------------------------------------------------------------------------
\* n copies of s, one after the other
RECURSIVE Repeat(_, _)
Repeat(s, n) ==
  IF n = 0 THEN ""
  ELSE LET half == Repeat(s, n \div 2)
       IN half \o half \o (IF n % 2 = 1 THEN s ELSE "")

\* a request URL of n characters
RequestOfLength(n) == "http://h/" \o Repeat("a", n - 9)

\* the request URLs jobs are created with: short, at the limit, one above it
\* and far above it
RequestInputs ==
  {DefaultRequest, RequestOfLength(TEXT_LIMIT), RequestOfLength(TEXT_LIMIT + 1),
   RequestOfLength(2 * TEXT_LIMIT)}

\* the messages callers pass: longer than the characters reserved for the
\* messages of the other statuses, and longer than what is left for failed
TextMessages ==
  {Repeat("m", reservedMessageChars + 100), Repeat("e", TEXT_LIMIT - 96)}

\* JSON.stringify of statesToMessages: the keys that are set, each as
\* "key":"value", separated by commas, in braces
StatusOrder ==
  <<"accepted", "running", "running_with_errors", "successful",
    "complete_with_errors", "failed", "canceled", "previewing", "paused">>

RECURSIVE stringifyEntries(_, _)
stringifyEntries(m, i) ==
  IF i > Len(StatusOrder) THEN ""
  ELSE LET key == StatusOrder[i]
           rest == stringifyEntries(m, i + 1)
       IN IF m[key] = Undefined THEN rest
          ELSE "\"" \o key \o "\":\"" \o m[key] \o "\""
                 \o (IF rest = "" THEN "" ELSE ",") \o rest

stringify(m) == "{" \o stringifyEntries(m, 1) \o "}"

\* new Job({ status, request })
NewJobRequest(p, status, request) ==
  /\ dbJob.id = 0
  /\ \A q \in Callers : job[q] = NoJob
  /\ job' = [job EXCEPT ![p] = [NewJobObject(status, 0, {}) EXCEPT !.request = request]]
  /\ last' = Call("new", p, FALSE)
  /\ UNCHANGED_DB

\* job.message = message: the setter sets the message of the current status
SetMessage(p, message) ==
  /\ job[p] # NoJob
  /\ Outcome(p, "setMessage", Returned(setMessage(job[p], message, job[p].status)))

\* one caller creating a job with a request URL of any length, setting
\* messages of any length, failing the job, saving and loading it
NextText ==
  \/ \E request \in RequestInputs : Step(NewJobRequest(Main, "running", request))
  \/ \E message \in TextMessages : Step(SetMessage(Main, message))
  \/ \E message \in TextMessages \cup {Undefined} : Step(Fail(Main, message))
  \/ Step(Pause(Main))
  \/ Step(Save(Main))
  \/ Step(Load(Main))

SpecText == Init /\ [][NextText]_vars

\* ------------------------------------------------------------------------
\* Status messages
\* ------------------------------------------------------------------------
\* job.message: the getter reads the message of the current status
message(j) == getMessage(j, j.status)

\* a job that is accepted, started and brought through its statuses, with and
\* without messages of the caller; succeed() is called without a message
NextMessages ==
  \/ Step(NewJob(Main, "accepted", 0, {}))
  \/ \E m \in CustomMessages : Step(SetMessage(Main, m))
  \/ \E status \in {"running", "previewing", "running_with_errors"}, m \in MessageArgs :
       Step(UpdateStatus(Main, status, m))
  \/ Step(Pause(Main))
  \/ Step(Resume(Main))
  \/ Step(SkipPreview(Main))
  \/ \E m \in MessageArgs : Step(Fail(Main, m))
  \/ \E m \in MessageArgs : Step(Cancel(Main, m))
  \/ \E m \in MessageArgs : Step(CompleteWithErrors(Main, m))
  \/ Step(Succeed(Main, Undefined))

SpecMessages == Init /\ [][NextMessages]_vars

\* ------------------------------------------------------------------------
\* The snapshot of provider ids
\* ------------------------------------------------------------------------
\* the provider ids of the jobs that get stored
ProviderIds == {"prov1", "prov2"}

\* what the calls of getProviderIdsSnapshot leave alone
UNCHANGED_BY_SNAPSHOT ==
  UNCHANGED <<job, dbJob, dbLinks, dbLabels, userWork, workItems, pick, ret,
              lock, pc, ct, reaperVars, qs>>

\* a job with provider_id = id is stored
AddProvider(id) ==
  /\ id \notin dbProviders
  /\ dbProviders' = dbProviders \cup {id}
  /\ last' = Call("addProvider", 0, FALSE)
  /\ UNCHANGED <<providerIdsSnapshot, loads, got>>
  /\ UNCHANGED_BY_SNAPSHOT

\* getUniqueProviderIds(tx): the distinct provider ids of the jobs table
getUniqueProviderIds == [defined |-> TRUE, ids |-> dbProviders]

\* the test that decides whether the caller loads the list
snapshotMissing == ~providerIdsSnapshot.defined

\* p calls getProviderIdsSnapshot: with the snapshot undefined it issues the
\* query and awaits it, otherwise it returns the snapshot
SnapshotCall(p) ==
  /\ got[p].pc = "idle"
  /\ IF snapshotMissing
       THEN /\ got' = [got EXCEPT ![p].pc = "loading"]
            /\ loads' = [loads EXCEPT !.issued = @ + 1]
       ELSE /\ got' = [got EXCEPT ![p] = [pc |-> "returned",
                                           result |-> providerIdsSnapshot]]
            /\ UNCHANGED loads
  /\ last' = Call("getProviderIdsSnapshot", p, FALSE)
  /\ UNCHANGED <<providerIdsSnapshot, dbProviders>>
  /\ UNCHANGED_BY_SNAPSHOT

\* the query of p resolves: the snapshot is assigned and returned
SnapshotLoaded(p) ==
  /\ got[p].pc = "loading"
  /\ providerIdsSnapshot' = getUniqueProviderIds
  /\ got' = [got EXCEPT ![p] = [pc |-> "returned", result |-> providerIdsSnapshot']]
  /\ last' = Call("getUniqueProviderIds", p, FALSE)
  /\ UNCHANGED <<dbProviders, loads>>
  /\ UNCHANGED_BY_SNAPSHOT

\* the query of p rejects: the error is logged, the snapshot is assigned the
\* empty list and returned
SnapshotLoadFailed(p) ==
  /\ got[p].pc = "loading"
  /\ providerIdsSnapshot' = [defined |-> TRUE, ids |-> {}]
  /\ got' = [got EXCEPT ![p] = [pc |-> "returned", result |-> providerIdsSnapshot']]
  /\ loads' = [loads EXCEPT !.failed = @ + 1]
  /\ last' = Call("getUniqueProviderIds", p, TRUE)
  /\ UNCHANGED dbProviders
  /\ UNCHANGED_BY_SNAPSHOT

\* p is done with the list it received and may call again
SnapshotDone(p) ==
  /\ got[p].pc = "returned"
  /\ got' = [got EXCEPT ![p] = NoSnapshotCall]
  /\ last' = Call("done", p, FALSE)
  /\ UNCHANGED <<providerIdsSnapshot, dbProviders, loads>>
  /\ UNCHANGED_BY_SNAPSHOT

\* the callers of one process asking for the snapshot while jobs of new
\* providers are stored and the query may fail
NextSnapshot ==
  \/ \E id \in ProviderIds : AddProvider(id)
  \/ \E p \in Callers : SnapshotCall(p)
  \/ \E p \in Callers : SnapshotLoaded(p)
  \/ \E p \in Callers : SnapshotLoadFailed(p)
  \/ \E p \in Callers : SnapshotDone(p)

SpecSnapshot == Init /\ [][NextSnapshot]_vars

\* ------------------------------------------------------------------------
\* Data expiration and validation
\* ------------------------------------------------------------------------
EXPIRATION_DAYS == 30

\* the destination_url of the jobs that are created: none, or a bucket
DestinationUrls == {Undefined, "s3://bucket/dir"}

\* no expiration: the null that getDataExpiration returns
NoExpiration == [null |-> TRUE, date |-> 0]

\* getDataExpiration(): a date in minutes of the clock; new Date(undefined),
\* for a job that was never stored, is the invalid date, written as date 0
getDataExpirationIgnoringDestination(j) ==
  [null |-> FALSE,
   date |-> IF j.createdAt = 0 THEN 0
            ELSE j.createdAt + EXPIRATION_DAYS * 24 * 60]

getDataExpiration(j) ==
  IF Falsy(j.destination_url)
    THEN [null |-> FALSE,
          date |-> IF j.createdAt = 0 THEN 0
                   ELSE j.createdAt + EXPIRATION_DAYS * 24 * 60]
    ELSE NoExpiration

\* the job request is created with a destination_url and stored
CreateJobWithDestination(p, status, destination_url) ==
  /\ dbJob.id = 0
  /\ \A q \in Callers : job[q] = NoJob
  /\ WriteJob([NewJobObject(status, 0, {}) EXCEPT !.destination_url = destination_url])
  /\ last' = Call("create", p, FALSE)
  /\ UNCHANGED <<job, userWork, lock, ct, reaperVars, snapshotVars>>

\* jobs created at any minute, with and without a destination_url, loaded
\* in later transactions and taken through the mutators; time passes between
\* the transactions
NextExpiration ==
  \/ (\A p \in Callers : job[p] = NoJob) /\ Tick
  \/ \E d \in DestinationUrls : Step(CreateJobWithDestination(Main, "running", d))
  \/ Step(Load(Main))
  \/ Step(Pause(Main))
  \/ Step(PauseAndSave(Main))
  \/ Step(Resume(Main))
  \/ Step(Cancel(Main, Undefined))
  \/ Step(Succeed(Main, Undefined))
  \/ Step(UpdateProgress(Main, <<[progress_weight |-> WeightDen, progressNum |-> StepProgressDen]>>))
  \/ job[Main] # NoJob /\ job[Main].batchesCompleted = 0 /\ Step(CompleteBatch(Main))
  \/ job[Main] # NoJob /\ job[Main].links = <<>> /\ Step(AddLink(Main))
  \/ Step(EndTransaction(Main))

SpecExpiration == Init /\ [][NextExpiration]_vars

\* s begins with prefix
StartsWith(s, prefix) ==
  Len(s) >= Len(prefix) /\ SubSeq(s, 1, Len(prefix)) = prefix

\* request.match(/^https?:\/\/.+$/) for a request of one line: http:// or
\* https:// followed by at least one character
matchesUrl(request) ==
  \/ StartsWith(request, "http://") /\ Len(request) > Len("http://")
  \/ StartsWith(request, "https://") /\ Len(request) > Len("https://")

\* the value validate() returns for a valid job
NoErrors == [null |-> TRUE, errors |-> <<>>]

\* validate(): null, or the list of the errors found
validateWithoutRequest(j) ==
  LET errors ==
        (IF j.progress < 0 \/ j.progress > 100
           THEN <<"Invalid progress " \o ToString(j.progress)
                    \o ". Job progress must be between 0 and 100.">>
           ELSE <<>>)
        \o (IF j.batchesCompleted < 0
              THEN <<"Invalid batchesCompleted " \o ToString(j.batchesCompleted)
                       \o ". Job batchesCompleted must be greater than or equal to 0.">>
              ELSE <<>>)
  IN IF Len(errors) = 0 THEN NoErrors ELSE [null |-> FALSE, errors |-> errors]

validate(j) ==
  LET errors ==
        (IF j.progress < 0 \/ j.progress > 100
           THEN <<"Invalid progress " \o ToString(j.progress)
                    \o ". Job progress must be between 0 and 100.">>
           ELSE <<>>)
        \o (IF j.batchesCompleted < 0
              THEN <<"Invalid batchesCompleted " \o ToString(j.batchesCompleted)
                       \o ". Job batchesCompleted must be greater than or equal to 0.">>
              ELSE <<>>)
        \o (IF ~matchesUrl(j.request)
              THEN <<"Invalid request " \o j.request \o ". Job request must be a URL.">>
              ELSE <<>>)
  IN IF Len(errors) = 0 THEN NoErrors ELSE [null |-> FALSE, errors |-> errors]

\* the fields jobs are built with before they are validated
ValidateProgress == {-1, 0, 50, 100, 101}
ValidateBatches == {-1, 0, 1}
ValidateRequests ==
  {"ftp://x", "http://x", "https://x", "http://", "https://", "xhttp://y",
   "HTTP://x", "https:/x", ""}

\* new Job({ progress, batchesCompleted, request })
NewJobFields(p, progress, batchesCompleted, request) ==
  /\ job[p] = NoJob
  /\ job' = [job EXCEPT ![p] =
               [NewJobObject("accepted", progress, {})
                  EXCEPT !.batchesCompleted = batchesCompleted,
                         !.request = request]]
  /\ last' = Call("new", p, FALSE)
  /\ UNCHANGED ret
  /\ UNCHANGED_DB

\* job.validate()
Validate(p) ==
  /\ job[p] # NoJob
  /\ ret' = validate(job[p])
  /\ last' = Call("validate", p, FALSE)
  /\ UNCHANGED job
  /\ UNCHANGED_DB

\* the Job object goes out of scope
DropJob(p) ==
  /\ job[p] # NoJob
  /\ job' = [job EXCEPT ![p] = NoJob]
  /\ last' = Call("drop", p, FALSE)
  /\ UNCHANGED ret
  /\ UNCHANGED_DB

\* jobs built with any of the fields and validated
NextValidate ==
  \/ \E progress \in ValidateProgress, batchesCompleted \in ValidateBatches,
        request \in ValidateRequests :
       NewJobFields(Main, progress, batchesCompleted, request)
         /\ UNCHANGED <<pc, workItems, pick>>
  \/ Validate(Main) /\ UNCHANGED <<pc, workItems, pick>>
  \/ DropJob(Main) /\ UNCHANGED <<pc, workItems, pick>>

SpecValidate == Init /\ [][NextValidate]_vars

\* ------------------------------------------------------------------------
\* Links
\* ------------------------------------------------------------------------
\* the hrefs a caller gives to the links of its Job object
LinkHrefs == {"h1", "h2"}

\* a caller changes link i of job.links in memory
EditLink(p, i, href) ==
  /\ job[p] # NoJob
  /\ i \in DOMAIN job[p].links
  /\ job[p].links[i].href # href
  /\ Outcome(p, "editLink", Returned([job[p] EXCEPT !.links[i].href = href]))

\* one caller adding links to the job, changing them in memory, saving and
\* loading the job again
NextLinks ==
  \/ Step(NewJob(Main, "accepted", 0, {}))
  \/ Step(Load(Main))
  \/ Step(AddLink(Main))
  \/ \E i \in 1..MaxLinks, href \in LinkHrefs : Step(EditLink(Main, i, href))
  \/ Step(Pause(Main))
  \/ Step(Cancel(Main, Undefined))
  \/ Step(UpdateStatus(Main, "running", Undefined))
  \/ Step(Save(Main))

SpecLinks == Init /\ [][NextLinks]_vars

\* ------------------------------------------------------------------------
\* The work reaper
\* ------------------------------------------------------------------------
\* env.reapableWorkAgeMinutes: the age, in minutes, past which the work of a
\* finished job is reaped
reapableWorkAgeMinutes == 1

\* the statuses start() passes to deleteTerminalWork
reapableStatusesWithRunning == {"failed", "successful", "canceled", "running"}

reapableStatuses == {"failed", "successful", "canceled"}

\* a workflow step of (jobID, serviceID) is stored with the job request
CreateWorkflowStep(jobID, serviceID) ==
  /\ <<jobID, serviceID>> \notin workflowSteps
  /\ workflowSteps' = workflowSteps \cup {<<jobID, serviceID>>}
  /\ last' = Call("createWorkflowStep", 0, FALSE)
  /\ UNCHANGED <<job, dbJob, dbLinks, dbLabels, userWork, workItems, pick, ret,
                 lock, pc, ct, now, reaper, snapshotVars>>

\* the join condition of the two id queries on the jobs row: the job has one
\* of the statuses and its updatedAt is more than the given minutes in the past
jobUpdateAgeAndStatus(row, notUpdatedForMinutes, jobStatus) ==
  /\ row.id # 0
  /\ row.status \in jobStatus
  /\ row.updatedAt < now - notUpdatedForMinutes

\* getWorkItemIdsByJobUpdateAgeAndStatus: the work items are identified by
\* their (job, service)
getWorkItemIdsByJobUpdateAgeAndStatus(notUpdatedForMinutes, jobStatus) ==
  {k \in DOMAIN workItems :
     /\ workItems[k] # NoWorkItems
     /\ k[1] = TheJob
     /\ jobUpdateAgeAndStatus(dbJob, notUpdatedForMinutes, jobStatus)}

\* getWorkflowStepIdsByJobUpdateAgeAndStatus
getWorkflowStepIdsByJobUpdateAgeAndStatus(notUpdatedForMinutes, jobStatus) ==
  {k \in workflowSteps :
     /\ k[1] = TheJob
     /\ jobUpdateAgeAndStatus(dbJob, notUpdatedForMinutes, jobStatus)}

\* deleteWorkItemsById: the work items afterwards
deleteWorkItemsById(items, ids) ==
  [k \in DOMAIN items |-> IF k \in ids THEN NoWorkItems ELSE items[k]]

\* deleteWorkflowStepsById: the workflow steps afterwards
deleteWorkflowStepsById(steps, ids) == steps \ ids

\* what a step of the reaper leaves alone
UNCHANGED_BY_REAPER ==
  UNCHANGED <<job, dbJob, dbLinks, dbLabels, userWork, pick, ret, lock, pc, ct,
              now, snapshotVars>>

\* start(): isRunning = true, then the loop; l is the loop the call runs, one
\* that no earlier call is running
ReaperStart(l) ==
  /\ reaper.pc[l] = "stopped"
  /\ reaper' = [reaper EXCEPT !.isRunning = TRUE, !.pc[l] = "loop"]
  /\ last' = Call("start", 0, FALSE)
  /\ UNCHANGED <<workItems, workflowSteps>>
  /\ UNCHANGED_BY_REAPER

\* stop(): isRunning = false
ReaperStop ==
  /\ reaper.isRunning
  /\ reaper' = [reaper EXCEPT
                  !.isRunning = FALSE,
                  !.stopCalled = [l \in ReaperLoops |-> reaper.pc[l] # "stopped"]]
  /\ last' = Call("stop", 0, FALSE)
  /\ UNCHANGED <<workItems, workflowSteps>>
  /\ UNCHANGED_BY_REAPER

\* while (this.isRunning) { await sleep(10000); ...
ReaperLoop(l) ==
  /\ reaper.pc[l] = "loop"
  /\ reaper' = [reaper EXCEPT
                  !.pc[l] = IF reaper.isRunning THEN "selectItems" ELSE "stopped",
                  !.stopCalled[l] = reaper.isRunning /\ reaper.stopCalled[l]]
  /\ last' = Call("loop", 0, FALSE)
  /\ UNCHANGED <<workItems, workflowSteps>>
  /\ UNCHANGED_BY_REAPER

\* deleteTerminalWork, first await: the ids of the work items to delete
ReaperSelectItems(l) ==
  /\ reaper.pc[l] = "selectItems"
  /\ LET workItemIds == getWorkItemIdsByJobUpdateAgeAndStatus(
                          reapableWorkAgeMinutes, reapableStatuses)
     IN reaper' = [reaper EXCEPT !.workItemIds[l] = workItemIds,
                                 !.pc[l] = IF workItemIds # {} THEN "deleteItems"
                                        ELSE "selectSteps"]
  /\ last' = Call("getWorkItemIds", 0, FALSE)
  /\ UNCHANGED <<workItems, workflowSteps>>
  /\ UNCHANGED_BY_REAPER

\* second await: the work items selected are deleted
ReaperDeleteItems(l) ==
  /\ reaper.pc[l] = "deleteItems"
  /\ workItems' = deleteWorkItemsById(workItems, reaper.workItemIds[l])
  /\ reaper' = [reaper EXCEPT !.pc[l] = "selectSteps"]
  /\ last' = Call("deleteWorkItemsById", 0, FALSE)
  /\ UNCHANGED workflowSteps
  /\ UNCHANGED_BY_REAPER

\* third await: the ids of the workflow steps to delete
ReaperSelectSteps(l) ==
  /\ reaper.pc[l] = "selectSteps"
  /\ LET workStepIds == getWorkflowStepIdsByJobUpdateAgeAndStatus(
                          reapableWorkAgeMinutes, reapableStatuses)
     IN reaper' = [reaper EXCEPT !.workflowStepIds[l] = workStepIds,
                                 !.pc[l] = IF workStepIds # {} THEN "deleteSteps"
                                        ELSE "sleep"]
  /\ last' = Call("getWorkflowStepIds", 0, FALSE)
  /\ UNCHANGED <<workItems, workflowSteps>>
  /\ UNCHANGED_BY_REAPER

\* fourth await: the workflow steps selected are deleted
ReaperDeleteSteps(l) ==
  /\ reaper.pc[l] = "deleteSteps"
  /\ workflowSteps' = deleteWorkflowStepsById(workflowSteps, reaper.workflowStepIds[l])
  /\ reaper' = [reaper EXCEPT !.pc[l] = "sleep"]
  /\ last' = Call("deleteWorkflowStepsById", 0, FALSE)
  /\ UNCHANGED workItems
  /\ UNCHANGED_BY_REAPER

\* any of the four awaits rejects and the error leaves start()
ReaperErrorPropagates(l) ==
  /\ reaper.pc[l] \in {"selectItems", "deleteItems", "selectSteps", "deleteSteps"}
  /\ reaper' = [reaper EXCEPT !.pc[l] = "stopped"]
  /\ last' = Call("deleteTerminalWork", 0, TRUE)
  /\ UNCHANGED <<workItems, workflowSteps>>
  /\ UNCHANGED_BY_REAPER

\* any of the four awaits rejects: the error is logged and the tick ends
ReaperError(l) ==
  /\ reaper.pc[l] \in {"selectItems", "deleteItems", "selectSteps", "deleteSteps"}
  /\ reaper' = [reaper EXCEPT !.pc[l] = "sleep"]
  /\ last' = Call("deleteTerminalWork", 0, TRUE)
  /\ UNCHANGED <<workItems, workflowSteps>>
  /\ UNCHANGED_BY_REAPER

\* await sleep(env.workReaperPeriodSec * 1000), then the loop condition
ReaperSleep(l) ==
  /\ reaper.pc[l] = "sleep"
  /\ reaper' = [reaper EXCEPT !.pc[l] = "loop"]
  /\ last' = Call("sleep", 0, FALSE)
  /\ UNCHANGED <<workItems, workflowSteps>>
  /\ UNCHANGED_BY_REAPER

\* work is queued only for a job that has not finished
JobUnfinished == dbJob.id # 0 /\ dbJob.status \notin terminalStates

\* a second caller
Other == CHOOSE p \in Callers : p # Main

\* the reaper ticking while time passes and two transactions change the job:
\* one reads the row with the lock and cancels the job, the other reads it
\* without the lock and pauses the job
NextReaper ==
  \/ Step(CreateJob(Main, "running"))
  \/ JobUnfinished /\ InsertEmptyUserWork(TheJob, TheService, 1)
  \/ JobUnfinished /\ CreateWorkItem(TheJob, TheService)
  \/ JobUnfinished /\ CreateWorkflowStep(TheJob, TheService)
  \/ TxBegin(Main)
  \/ TxBeginNoLock(Other)
  \/ TxMutate(Main, Cancel(Main, Undefined))
  \/ TxMutate(Other, Pause(Other))
  \/ \E p \in {Main, Other} : TxSave(p)
  \/ \E p \in {Main, Other} : TxEnd(p)
  \/ Tick
  \/ ReaperStart(FirstLoop)
  \/ ReaperStop
  \/ ReaperLoop(FirstLoop)
  \/ ReaperSelectItems(FirstLoop)
  \/ ReaperDeleteItems(FirstLoop)
  \/ ReaperSelectSteps(FirstLoop)
  \/ ReaperDeleteSteps(FirstLoop)
  \/ ReaperError(FirstLoop)
  \/ ReaperSleep(FirstLoop)

SpecReaper == Init /\ [][NextReaper]_vars

\* the reaper loop running for good over a job that transactions holding the
\* row lock bring to any of its final statuses
NextReaperLoop ==
  \/ Step(CreateJob(Main, "running"))
  \/ JobUnfinished /\ InsertEmptyUserWork(TheJob, TheService, 1)
  \/ JobUnfinished /\ CreateWorkItem(TheJob, TheService)
  \/ JobUnfinished /\ CreateWorkflowStep(TheJob, TheService)
  \/ TxBegin(Main)
  \/ TxMutate(Main, Fail(Main, Undefined))
  \/ TxMutate(Main, Cancel(Main, Undefined))
  \/ TxMutate(Main, Succeed(Main, Undefined))
  \/ TxMutate(Main, CompleteWithErrors(Main, Undefined))
  \/ TxSave(Main)
  \/ TxEnd(Main)
  \/ Tick
  \/ ReaperStart(FirstLoop)
  \/ ReaperLoop(FirstLoop)
  \/ ReaperSelectItems(FirstLoop)
  \/ ReaperDeleteItems(FirstLoop)
  \/ ReaperSelectSteps(FirstLoop)
  \/ ReaperDeleteSteps(FirstLoop)
  \/ ReaperError(FirstLoop)
  \/ ReaperSleep(FirstLoop)

\* the loop is started and keeps running, every sleep ends, and a query or a
\* delete that is tried again and again does not fail for ever
SpecReaperLoop ==
  /\ Init
  /\ [][NextReaperLoop]_vars
  /\ WF_vars(ReaperStart(FirstLoop))
  /\ WF_vars(ReaperLoop(FirstLoop))
  /\ WF_vars(ReaperSleep(FirstLoop))
  /\ SF_vars(ReaperSelectItems(FirstLoop))
  /\ SF_vars(ReaperDeleteItems(FirstLoop))
  /\ SF_vars(ReaperSelectSteps(FirstLoop))
  /\ SF_vars(ReaperDeleteSteps(FirstLoop))

\* ------------------------------------------------------------------------
\* Progress rollup of given workflow steps
\* ------------------------------------------------------------------------
\* the steps of scenario S5 at StepProgressDen = 2: {weight 1, progress 0.5}
\* and {weight 3, progress 0}
S5Steps ==
  <<[progress_weight |-> WeightDen, progressNum |-> 1],
    [progress_weight |-> 3 * WeightDen, progressNum |-> 0]>>

\* the step lists updateProgress reads in this specification: none, a
\* finished step of weight 1 / WeightDen, a finished step of weight 1,
\* the steps of S5 and two finished steps
RollupInputs ==
  { <<>>,
    <<[progress_weight |-> 1, progressNum |-> StepProgressDen]>>,
    <<[progress_weight |-> WeightDen, progressNum |-> StepProgressDen]>>,
    S5Steps,
    <<[progress_weight |-> WeightDen, progressNum |-> StepProgressDen],
      [progress_weight |-> 3 * WeightDen, progressNum |-> StepProgressDen]>> }

\* a job built with progress 0 or 10, its mutators and its rollup
NextRollup ==
  \/ \E progress \in InitialProgress : Step(NewJob(Main, "accepted", progress, {}))
  \/ \E steps \in RollupInputs : Step(UpdateProgress(Main, steps))
  \/ Step(UpdateStatus(Main, "running", Undefined))
  \/ Step(Pause(Main))
  \/ Step(Resume(Main))
  \/ Step(Cancel(Main, Undefined))
  \/ Step(Fail(Main, Undefined))
  \/ Step(Succeed(Main, Undefined))
  \/ DropJob(Main) /\ UNCHANGED <<pc, workItems, pick>>

SpecRollup == Init /\ [][NextRollup]_vars

\* ------------------------------------------------------------------------
\* start() and stop() called in any order on one WorkReaper
\* ------------------------------------------------------------------------
\* start() and stop() are called at any time; the tables hold no work, so
\* a tick runs its two queries and deletes nothing
NextReaperRestart ==
  \/ \E l \in ReaperLoops : ReaperStart(l)
  \/ ReaperStop
  \/ \E l \in ReaperLoops : ReaperLoop(l)
  \/ \E l \in ReaperLoops : ReaperSelectItems(l)
  \/ \E l \in ReaperLoops : ReaperSelectSteps(l)
  \/ \E l \in ReaperLoops : ReaperError(l)
  \/ \E l \in ReaperLoops : ReaperSleep(l)

\* every sleep ends, every query is answered or fails, and a loop that can
\* test its condition does
SpecReaperRestart ==
  /\ Init
  /\ [][NextReaperRestart]_vars
  /\ \A l \in ReaperLoops :
       /\ WF_vars(ReaperLoop(l))
       /\ WF_vars(ReaperSelectItems(l))
       /\ WF_vars(ReaperSelectSteps(l))
       /\ WF_vars(ReaperSleep(l))

\* ------------------------------------------------------------------------
\* recalculateReadyCount
\* ------------------------------------------------------------------------
\* the columns of the user_work table, as the INSERT of
\* popuateUserWorkFromWorkItems and the other queries name them
UserWorkColumns ==
  {"id", "job_id", "service_id", "username", "ready_count", "running_count",
   "last_worked", "createdAt", "updatedAt"}

\* recalculateReadyCount(tx, jobID): the table afterwards and whether the
\* call was rejected. The first query selects the columns id and serviceID
\* of user_work and is rejected when the table has no such column; the
\* update of a row is handed the row of the count query, { count: n }, for
\* the integer column ready_count, which the store rejects as well
recalculateReadyCount(uw, items, jobID) ==
  LET selected == {"id", "serviceID"}
      rows == {k \in Rows(uw) : k[1] = jobID}
  IN IF ~(selected \subseteq UserWorkColumns) THEN [threw |-> TRUE, table |-> uw]
     ELSE IF rows = {} THEN [threw |-> FALSE, table |-> uw]
     ELSE [threw |-> TRUE, table |-> uw]

RecalculateReadyCount(jobID) ==
  /\ userWork' = recalculateReadyCount(userWork, workItems, jobID).table
  /\ last' = Call("recalculateReadyCount", 0,
                  recalculateReadyCount(userWork, workItems, jobID).threw)
  /\ UNCHANGED <<job, dbJob, dbLinks, dbLabels, workItems, pick, ret, lock, pc, ct,
                 reaperVars, snapshotVars>>

\* the jobs and services with rows in this specification
RecalculateKeys == {<<TheJob, 1>>, <<TheJob, 2>>, <<"j2", 1>>}

\* work is queued for two jobs and claimed by a dispatcher of the first
\* service, and the ready counts are recalculated at any time
NextRecalculate ==
  \/ \E k \in RecalculateKeys : InsertEmptyUserWork(k[1], k[2], 1)
  \/ \E k \in RecalculateKeys : CreateWorkItem(k[1], k[2])
  \/ DispatchNextUser(Main, 1)
  \/ DispatchNextJob(Main)
  \/ DispatchClaim(Main)
  \/ \E jobID \in {TheJob, "j2"} : RecalculateReadyCount(jobID)

SpecRecalculate == Init /\ [][NextRecalculate]_vars

\* ------------------------------------------------------------------------
\* querySource
\* ------------------------------------------------------------------------
Collections == {"C1", "C2"}

\* done = ++page < maxPages || true, with page already incremented
doneBelowMaxPages(page, maxPages) == ~(page < maxPages)

done(page, maxPages) == (page < maxPages) \/ TRUE

UNCHANGED_BY_QUERY_SOURCE ==
  UNCHANGED <<job, dbJob, dbLinks, dbLabels, userWork, workItems, pick, ret,
              lock, pc, ct, reaperVars, providerIdsSnapshot, dbProviders, loads, got>>

\* querySource(token, source, queryLocation, pageSize, maxPages, filePrefix)
\* is called: an empty catalog, page = 0, done = false, then the query file
\* is downloaded and read
QuerySourceCall(collection, pageSize, maxPages) ==
  /\ qs.pc = "idle"
  /\ qs' = [NoQuerySource EXCEPT !.pc = "readQuery", !.collection = collection,
                                 !.pageSize = pageSize, !.maxPages = maxPages]
  /\ last' = Call("querySource", 0, FALSE)
  /\ UNCHANGED_BY_QUERY_SOURCE

\* the query file has been read and parsed
QuerySourceRead ==
  /\ qs.pc = "readQuery"
  /\ qs' = [qs EXCEPT !.pc = "while"]
  /\ last' = Call("readFile", 0, FALSE)
  /\ UNCHANGED_BY_QUERY_SOURCE

\* while (!done): the loop goes on or querySource returns the catalog
QuerySourceLoop ==
  /\ qs.pc = "while"
  /\ qs' = [qs EXCEPT !.pc = IF ~qs.done THEN "query" ELSE "returned"]
  /\ last' = Call("while", 0, FALSE)
  /\ UNCHANGED_BY_QUERY_SOURCE

\* the body of the loop: one CMR query of a page of at most pageSize
\* granules, the granules added to the catalog, page incremented and done
\* assigned
QuerySourcePage(granules) ==
  /\ qs.pc = "query"
  /\ granules <= qs.pageSize
  /\ qs' = [qs EXCEPT !.queries = Append(@, [collection |-> qs.collection,
                                             pageSize |-> qs.pageSize]),
                      !.result = Append(@, granules),
                      !.page = @ + 1,
                      !.done = done(qs.page + 1, qs.maxPages),
                      !.pc = "while"]
  /\ last' = Call("cmrQueryGranules", 0, FALSE)
  /\ UNCHANGED_BY_QUERY_SOURCE

\* the download or the parse of the query file, or the CMR query, fails:
\* querySource rejects
QuerySourceRejected ==
  /\ qs.pc \in {"readQuery", "query"}
  /\ qs' = [qs EXCEPT !.pc = "rejected",
                      !.queries = IF qs.pc = "query"
                                    THEN Append(@, [collection |-> qs.collection,
                                                    pageSize |-> qs.pageSize])
                                    ELSE @]
  /\ last' = Call("querySource", 0, TRUE)
  /\ UNCHANGED_BY_QUERY_SOURCE

\* the caller has the catalog, or the error, and the call is over
QuerySourceDone ==
  /\ qs.pc \in {"returned", "rejected"}
  /\ qs' = NoQuerySource
  /\ last' = Call("done", 0, FALSE)
  /\ UNCHANGED_BY_QUERY_SOURCE

\* querySource called with any collection, pageSize and maxPages
NextQuerySource ==
  \/ \E collection \in Collections, pageSize \in 1..MaxPageSize, maxPages \in 0..MaxPages :
       QuerySourceCall(collection, pageSize, maxPages)
  \/ QuerySourceRead
  \/ QuerySourceLoop
  \/ \E granules \in 0..MaxPageSize : QuerySourcePage(granules)
  \/ QuerySourceRejected
  \/ QuerySourceDone

SpecQuerySource == Init /\ [][NextQuerySource]_vars

\* ------------------------------------------------------------------------
\* Counter updates and row deletion
\* ------------------------------------------------------------------------
\* deleteUserWorkForJob(tx, jobID): the table afterwards and the number of
\* rows deleted
deleteUserWorkForJob(uw, jobID) ==
  LET keys == {k \in Rows(uw) : k[1] = jobID}
  IN [table |-> [k \in DOMAIN uw |-> IF k \in keys THEN NoUserWork ELSE uw[k]],
      numDeleted |-> Cardinality(keys)]

DeleteUserWorkForJob(jobID) ==
  /\ userWork' = deleteUserWorkForJob(userWork, jobID).table
  /\ ret' = deleteUserWorkForJob(userWork, jobID).numDeleted
  /\ last' = Call("deleteUserWorkForJob", 0, FALSE)
  /\ UNCHANGED <<job, dbJob, dbLinks, dbLabels, workItems, pick, lock, ct, reaperVars,
                 snapshotVars>>

\* the jobs whose rows are inserted, counted up and deleted
CounterJobs == {TheJob, "j2"}

\* a caller that queues work for (jobID, serviceID) first makes sure the pair
\* has a row: it saves one with both counts 0 unless there is one
QueueWorkSaveRow(p, jobID, serviceID) ==
  /\ pc[p] = "idle"
  /\ userWork' = IF userWork[<<jobID, serviceID>>].exists THEN userWork
                 ELSE [userWork EXCEPT ![<<jobID, serviceID>>] =
                         [exists |-> TRUE, username |-> UserOf[jobID],
                          ready_count |-> 0, running_count |-> 0, last_worked |-> 1]]
  /\ pick' = [pick EXCEPT ![p] = [serviceID |-> serviceID, username |-> UserOf[jobID],
                                  jobID |-> jobID]]
  /\ pc' = [pc EXCEPT ![p] = "rowSaved"]
  /\ last' = Call("insertUserWork", p, FALSE)
  /\ UNCHANGED <<job, dbJob, dbLinks, dbLabels, workItems, ret, lock, ct, reaperVars,
                 snapshotVars>>

\* then it counts the n work items it made ready:
\* incrementReadyCount(tx, jobID, serviceID, n)
QueueWorkIncrement(p, n) ==
  /\ pc[p] = "rowSaved"
  /\ IncrementReadyCount(pick[p].jobID, pick[p].serviceID, n)
  /\ pc' = [pc EXCEPT ![p] = "idle"]
  /\ UNCHANGED <<workItems, pick, ret>>

\* two callers queue work for pairs that have a row when they start counting
\* or had one before, and the two clean-ups run at any time
NextCounters ==
  \/ \E p \in {Main, Other}, j \in CounterJobs : QueueWorkSaveRow(p, j, TheService)
  \/ \E p \in {Main, Other} : QueueWorkIncrement(p, 1)
  \/ DeleteOrphanedRows /\ UNCHANGED pc
  \/ \E j \in CounterJobs : DeleteUserWorkForJob(j) /\ UNCHANGED pc

SpecCounters == Init /\ [][NextCounters]_vars

\* ------------------------------------------------------------------------
\* Properties
\* ------------------------------------------------------------------------
\* the table of permitted events of the design document, section 4.1:
\* <<state, event, target>>
TransitionTable ==
  {<<"accepted", "START", "running">>,
   <<"accepted", "START_WITH_PREVIEW", "previewing">>,
   <<"running", "COMPLETE", "successful">>,
   <<"running", "COMPLETE_WITH_ERRORS", "complete_with_errors">>,
   <<"running", "CANCEL", "canceled">>,
   <<"running", "FAIL", "failed">>,
   <<"running", "PAUSE", "paused">>,
   <<"running_with_errors", "COMPLETE", "successful">>,
   <<"running_with_errors", "COMPLETE_WITH_ERRORS", "complete_with_errors">>,
   <<"running_with_errors", "CANCEL", "canceled">>,
   <<"running_with_errors", "FAIL", "failed">>,
   <<"running_with_errors", "PAUSE", "paused">>,
   <<"previewing", "SKIP_PREVIEW", "running">>,
   <<"previewing", "CANCEL", "canceled">>,
   <<"previewing", "FAIL", "failed">>,
   <<"previewing", "PAUSE", "paused">>,
   <<"paused", "SKIP_PREVIEW", "running">>,
   <<"paused", "RESUME", "running">>,
   <<"paused", "CANCEL", "canceled">>,
   <<"paused", "FAIL", "failed">>,
   <<"failed", "FAIL", "failed">>}

TablePermits(status, event) ==
  \E target \in JobStatus : <<status, event, target>> \in TransitionTable

TableEdge(from, to) ==
  \E event \in JobEvent : <<from, event, to>> \in TransitionTable

\* the event each validating mutator proposes
EventOf ==
  [pause |-> "PAUSE", pauseAndSave |-> "PAUSE", resume |-> "RESUME",
   skipPreview |-> "SKIP_PREVIEW", fail |-> "FAIL", cancel |-> "CANCEL",
   succeed |-> "COMPLETE", complete_with_errors |-> "COMPLETE_WITH_ERRORS"]

MutatorOps ==
  {"pause", "resume", "skipPreview", "fail", "cancel", "succeed", "complete_with_errors"}

\* the step just taken is a call of op by caller p on the Job object it holds
CallOf(p, op) == last'.op = op /\ last'.caller = p /\ job[p] # NoJob

\* C1: for every current status other than failed, canTransition(current,
\* desired, event) is true exactly when the table lists event for current with
\* desired as its target.
C1_CanTransitionMatchesTable ==
  (ct # NoQuery /\ ct.current # "failed")
    => (ct.result <=> <<ct.current, ct.event, ct.desired>> \in TransitionTable)

\* a listed event asked with a desired status that is not its target
C1_Witness ==
  /\ ct.current = "running" /\ ct.event = "PAUSE" /\ ct.desired = "running"
  /\ ct.result = FALSE

\* C2: re-failing is idempotent: fail() on a job whose status is already
\* failed does not throw.
C2_RefailDoesNotThrow ==
  ~(last.op = "fail" /\ last.threw /\ job[last.caller].status = "failed")

\* C3: after every accepted call of a mutator the status is the target the
\* table gives for the status before the call and the mutator's event; in
\* particular resume() is accepted only from paused.
C3_StatusFollowsTable ==
  [][\A p \in Callers : \A op \in MutatorOps :
       (CallOf(p, op) /\ ~last'.threw)
         => /\ <<job[p].status, EventOf[op], job'[p].status>> \in TransitionTable
            /\ (op = "resume" => job[p].status = "paused")]_vars

C3_Witness ==
  /\ last.op = "resume" /\ ~last.threw
  /\ job[Main].status = "running"

\* C4: a mutator called in a status for which the table does not list its
\* event throws and leaves status, status messages and progress as they were;
\* pauseAndSave then neither saves nor resets the ready counts.
C4_RejectedCallChangesNothing ==
  [][\A p \in Callers : \A op \in MutatorOps \cup {"pauseAndSave"} :
       (CallOf(p, op) /\ ~TablePermits(job[p].status, EventOf[op]))
         => /\ last'.threw
            /\ job'[p].status = job[p].status
            /\ job'[p].statesToMessages = job[p].statesToMessages
            /\ job'[p].progress = job[p].progress
            /\ (op = "pauseAndSave"
                  => UNCHANGED <<dbJob, dbLinks, dbLabels, userWork>>)]_vars

\* pauseAndSave rejected while the object differs from the stored row and
\* work is ready
C4_Witness ==
  /\ last.op = "pauseAndSave" /\ last.threw
  /\ dbJob.id # 0 /\ dbJob.status # job[Main].status
  /\ \E s \in Services : userWork[<<TheJob, s>>].ready_count > 0

\* C5 as stated: no operation on a Job object moves its status from one value
\* to another that the table does not permit.
C5_EveryChangeIsATableEdge ==
  [][\A p \in Callers :
       (job[p] # NoJob /\ job'[p] # NoJob /\ job'[p].status # job[p].status)
         => TableEdge(job[p].status, job'[p].status)]_vars

\* C5 amended: the status of a Job object changes only in updateStatus, called
\* directly or by a validating mutator, and a validating mutator moves it
\* only along an edge of the table.
C5_MutatorsFollowEdges ==
  [][\A p \in Callers :
       (job[p] # NoJob /\ job'[p] # NoJob /\ job'[p].status # job[p].status)
         => /\ last'.caller = p
            /\ last'.op \in MutatorOps \cup {"updateStatus"}
            /\ (last'.op \in MutatorOps
                  => TableEdge(job[p].status, job'[p].status))]_vars

C5_Witness ==
  /\ last.op = "cancel" /\ ~last.threw
  /\ job[Main].status = "canceled"

FinishedStatuses == {"successful", "complete_with_errors", "canceled"}

\* C6: save on a Job object whose originalStatus is successful,
\* complete_with_errors or canceled throws and writes nothing: the jobs row,
\* the links and the labels stay as they are, whatever the object's status.
C6_WriteBarrier ==
  [][\A p \in Callers :
       (CallOf(p, "save") /\ job[p].originalStatus \in FinishedStatuses)
         => /\ last'.threw
            /\ UNCHANGED <<dbJob, dbLinks, dbLabels>>]_vars

\* a rejected save of an object that differs from the stored job
C6_Witness ==
  /\ last.op = "save" /\ last.threw
  /\ job[Main].originalStatus = "canceled"
  /\ job[Main].status = "running"
  /\ \E i \in DOMAIN job[Main].links : job[Main].links[i].id = 0

\* C7: a Job loaded from the store with status failed, and still failed, is
\* saved without a ConflictError.
C7_FailedJobSaves ==
  ~(/\ last.op = "save" /\ last.threw
    /\ job[last.caller].originalStatus = "failed"
    /\ job[last.caller].status = "failed")

C9_TerminalRowNeverOverwritten ==
  [][dbJob.status \in terminalStates => dbJob' = dbJob]_vars

\* C9 amended: a stored terminal row is overwritten only by the save of a Job
\* object whose originalStatus is not terminal, that is one constructed
\* before the job was finalized; an object loaded after that cannot.
C9_OnlyStaleObjectsOverwrite ==
  [][(dbJob.status \in terminalStates /\ dbJob' # dbJob)
       => /\ last'.op = "save"
          /\ job[last'.caller] # NoJob
          /\ job[last'.caller].originalStatus \notin terminalStates]_vars

C9_Witness ==
  /\ last.op = "save" /\ last.threw
  /\ job[last.caller].originalStatus \in terminalStates
  /\ \E q \in Callers : q # last.caller /\ job[q] # NoJob
                        /\ job[q].originalStatus \notin terminalStates

\* C10: the progress of a Job object never decreases and stays in 0..100; it
\* rises outside updateProgress only when it is forced to 100 on reaching
\* successful or complete_with_errors.
C10_ProgressMonotone ==
  [][\A p \in Callers :
       (job[p] # NoJob /\ job'[p] # NoJob)
         => /\ job'[p].progress >= job[p].progress
            /\ job'[p].progress \in 0..100
            /\ (job'[p].progress > job[p].progress /\ last'.op # "updateProgress"
                  => /\ job'[p].progress = 100
                     /\ job'[p].status \in {"successful", "complete_with_errors"})]_vars

\* a rollup after the progress was forced to 100
C10_Witness ==
  /\ last.op = "updateProgress"
  /\ job[Main].progress = 100
  /\ job[Main].status = "successful"

\* C11 as stated: under any interleaving of workers that load the job, call
\* updateProgress and save, the progress stored in the jobs row never goes
\* down.
C11_StoredProgressMonotone ==
  [][dbJob.id # 0 => dbJob'.progress >= dbJob.progress]_vars

\* C11 amended: the stored progress goes down only in the save of a worker
\* that read the row without the exclusive lock; a worker that holds the lock
\* from its read to its save never lowers it.
C11_LockedSaveNeverLowers ==
  [][(dbJob.id # 0 /\ dbJob'.progress < dbJob.progress)
       => /\ last'.op = "save"
          /\ lock # last'.caller]_vars

\* a worker holding the lock has saved a higher progress while another worker
\* still holds the object it read before
C11_Witness ==
  /\ last.op = "save" /\ ~last.threw /\ lock = last.caller
  /\ dbJob.progress > 0
  /\ \E q \in Callers : /\ q # last.caller /\ job[q] # NoJob
                         /\ job[q].progress < dbJob.progress

CompletedStatuses == {"successful", "complete_with_errors"}

\* C12 as stated: for a job created as accepted with progress 0, progress is
\* 100 exactly when the status is successful or complete_with_errors.
C12_HundredIffCompleted ==
  \A p \in Callers :
    job[p] # NoJob => (job[p].progress = 100 <=> job[p].status \in CompletedStatuses)

\* C12 amended: while the status is successful or complete_with_errors the
\* progress is 100, and progress becomes 100 only in a step that sets one of
\* those statuses; a later updateStatus to another status leaves it at 100.
C12_CompletedHasHundred ==
  [][\A p \in Callers :
       job'[p] # NoJob
         => /\ (job'[p].status \in CompletedStatuses => job'[p].progress = 100)
            /\ (job[p] # NoJob /\ job[p].progress # 100 /\ job'[p].progress = 100
                  => /\ job'[p].status \in CompletedStatuses
                     /\ last'.op \in {"succeed", "complete_with_errors",
                                      "updateStatus"})]_vars

\* succeed has completed the job and forced its progress to 100
C12_Witness ==
  /\ last.op = "succeed" /\ ~last.threw
  /\ job[Main].progress = 100

\* C13: after pauseAndSave has completed on the job, every user_work row of
\* the job, for every service, has ready_count 0.
C13_PauseZeroesReadyCounts ==
  [][\A p \in Callers :
       (CallOf(p, "pauseAndSave") /\ ~last'.threw)
         => \A s \in Services :
              userWork'[<<TheJob, s>>].exists
                => userWork'[<<TheJob, s>>].ready_count = 0]_vars

\* the job was paused and has a row for every service
C13_Witness ==
  /\ last.op = "pauseAndSave" /\ ~last.threw
  /\ dbJob.status = "paused"
  /\ \A s \in Services : /\ userWork[<<TheJob, s>>].exists
                          /\ userWork[<<TheJob, s>>].ready_count = 0

\* C14: in every reachable state every user_work row has ready_count >= 0 and
\* running_count >= 0.
C14_CountsNeverNegative ==
  \A k \in DOMAIN userWork :
    userWork[k].exists => userWork[k].ready_count >= 0 /\ userWork[k].running_count >= 0

\* the work items of a pair that are ready or running
ActiveItems(k) == workItems[k].ready + workItems[k].running

ItemOps == {"createWorkItem", "claim", "abandon", "completeWorkItem", "retryWorkItem",
            "deleteOrphanedRows"}

QueryOf(op) == last'.op = op

\* C16: deleteOrphanedRows deletes exactly the rows whose ready_count and
\* running_count are both zero, returns their number, and leaves every other
\* row present and unchanged.
C16_DeletesExactlyOrphans ==
  [][QueryOf("deleteOrphanedRows")
       => LET orphans == {k \in DOMAIN userWork :
                            /\ userWork[k].exists
                            /\ userWork[k].ready_count = 0
                            /\ userWork[k].running_count = 0}
          IN /\ \A k \in orphans : ~userWork'[k].exists
             /\ \A k \in DOMAIN userWork \ orphans : userWork'[k] = userWork[k]
             /\ ret' = Cardinality(orphans)]_vars

\* orphans were deleted from a table that also holds a row with only its
\* running_count set and a row with only its ready_count set
C16_Witness ==
  /\ last.op = "deleteOrphanedRows" /\ ret >= 1
  /\ \E k \in DOMAIN userWork :
       userWork[k].exists /\ userWork[k].ready_count = 0 /\ userWork[k].running_count > 0
  /\ \E k \in DOMAIN userWork :
       userWork[k].exists /\ userWork[k].ready_count > 0 /\ userWork[k].running_count = 0

\* the usernames with a row for the service whose ready_count is positive
HasReadyRow(username, serviceID) ==
  \E j \in Jobs : /\ userWork[<<j, serviceID>>].exists
                   /\ userWork[<<j, serviceID>>].username = username
                   /\ userWork[<<j, serviceID>>].ready_count > 0

\* C17: getNextUsernameForWork(serviceID) returns only a username that has a
\* row for serviceID with ready_count > 0, and returns undefined when there
\* is no such row.
C17_ReturnsOnlyReadyUsers ==
  [][QueryOf("getNextUsernameForWork")
       => LET serviceID == pick'[last'.caller].serviceID
          IN /\ (ret' # Undefined => ret' \in Usernames /\ HasReadyRow(ret', serviceID))
             /\ ((~\E u \in Usernames : HasReadyRow(u, serviceID))
                   => ret' = Undefined)]_vars

\* the only user with work ready for the service was returned although another
\* user has work ready for another service
C17_Witness ==
  /\ last.op = "getNextUsernameForWork" /\ ret = "userB"
  /\ pick[Main].serviceID = 1
  /\ ~HasReadyRow("userA", 1) /\ HasReadyRow("userA", 2)

\* the sum of the running counts and the latest last_worked of a user's rows
SumRunningOf(username) ==
  LET keys == {k \in DOMAIN userWork :
                 userWork[k].exists /\ userWork[k].username = username}
  IN SumRunningCount(userWork, keys)

LatestWorkedOf(username) ==
  LET keys == {k \in DOMAIN userWork :
                 userWork[k].exists /\ userWork[k].username = username}
  IN CHOOSE t \in Times : /\ \E k \in keys : userWork[k].last_worked = t
                          /\ \A k \in keys : userWork[k].last_worked <= t

\* C18: among the usernames eligible for the service the one returned has the
\* smallest sum of running counts and, among those level on that sum, the
\* oldest maximum last_worked.
C18_LeastLoadedOldestFirst ==
  [][(QueryOf("getNextUsernameForWork") /\ ret' # Undefined)
       => LET serviceID == pick'[last'.caller].serviceID
          IN \A v \in Usernames :
               HasReadyRow(v, serviceID)
                 => /\ SumRunningOf(ret') <= SumRunningOf(v)
                    /\ (SumRunningOf(ret') = SumRunningOf(v)
                          => LatestWorkedOf(ret') <= LatestWorkedOf(v))]_vars

\* both users are eligible with the same running sum and userB, last worked
\* before userA, was returned
C18_Witness ==
  /\ last.op = "getNextUsernameForWork" /\ ret = "userB"
  /\ HasReadyRow("userA", pick[Main].serviceID)
  /\ HasReadyRow("userB", pick[Main].serviceID)
  /\ SumRunningOf("userA") = SumRunningOf("userB") /\ SumRunningOf("userB") > 0
  /\ LatestWorkedOf("userB") < LatestWorkedOf("userA")

\* C19: the job getNextJobIdForUsernameAndService(serviceID, username)
\* returns has a row of that user for that service with ready_count > 0, and
\* no such row of the user has a smaller last_worked.
C19_OldestReadyJobOfUser ==
  [][(QueryOf("getNextJobIdForUsernameAndService") /\ ~last'.threw)
       => LET serviceID == pick'[last'.caller].serviceID
              username == pick'[last'.caller].username
              Ready(j) == /\ userWork[<<j, serviceID>>].exists
                          /\ userWork[<<j, serviceID>>].username = username
                          /\ userWork[<<j, serviceID>>].ready_count > 0
          IN /\ ret' \in Jobs
             /\ Ready(ret')
             /\ \A j \in Jobs :
                  Ready(j) => userWork[<<ret', serviceID>>].last_worked
                                <= userWork[<<j, serviceID>>].last_worked]_vars

\* the user's later-worked job was returned because the earlier-worked one
\* has nothing ready, and the user's job with work ready for another service
\* was not
C19_Witness ==
  /\ last.op = "getNextJobIdForUsernameAndService" /\ ~last.threw
  /\ pick[Main].serviceID = 1 /\ ret = "j1"
  /\ userWork[<<"j3", 1>>].exists /\ userWork[<<"j3", 1>>].ready_count = 0
  /\ userWork[<<"j3", 1>>].last_worked < userWork[<<"j1", 1>>].last_worked
  /\ userWork[<<"j3", 2>>].exists /\ userWork[<<"j3", 2>>].ready_count > 0

\* C20: while the dispatcher keeps running nextUser, nextJobId and the claim
\* and running items keep completing, no job and no user stays with
\* ready_count > 0 for the service for ever without being selected.
C20_NoStarvation ==
  /\ \A j \in DispatchJobs :
       []<>(\/ ~(userWork[<<j, TheService>>].exists
                 /\ userWork[<<j, TheService>>].ready_count > 0)
            \/ (last.op = "claim" /\ pick[last.caller].jobID = j))
  /\ \A u \in Usernames :
       []<>(\/ ~HasReadyRow(u, TheService)
            \/ (last.op = "claim" /\ pick[last.caller].username = u))

\* the stored job is one whose work the reaper is to delete: failed,
\* successful or canceled, and last updated before the threshold
Reapable ==
  /\ dbJob.status \in {"failed", "successful", "canceled"}
  /\ now - dbJob.updatedAt > reapableWorkAgeMinutes

\* a step that deletes work items or workflow steps
DeletesWork ==
  \/ \E k \in DOMAIN workItems : workItems[k] # NoWorkItems /\ workItems'[k] = NoWorkItems
  \/ workflowSteps' # workflowSteps

\* C21 as stated: whenever the reaper deletes work items or workflow steps,
\* the job they belong to is stored as failed, successful or canceled and was
\* last updated before the threshold, whatever the job mutators do meanwhile.
C21_DeletesOnlyOfReapableJobs ==
  [][(last'.op \in {"deleteWorkItemsById", "deleteWorkflowStepsById"} /\ DeletesWork)
       => Reapable]_vars

\* C21, amended: the reaper selects work items and workflow steps only of a
\* job that is stored as failed, successful or canceled and was last updated
\* before the threshold when it selects them, and it deletes nothing but the
\* work items and workflow steps it selected.
C21_SelectsOnlyOfReapableJobs ==
  [][/\ (last'.op = "getWorkItemIds" /\ reaper'.workItemIds[FirstLoop] # {}) => Reapable
     /\ (last'.op = "getWorkflowStepIds" /\ reaper'.workflowStepIds[FirstLoop] # {}) => Reapable
     /\ last'.op = "deleteWorkItemsById"
          => /\ workflowSteps' = workflowSteps
             /\ \A k \in DOMAIN workItems :
                  workItems'[k] # workItems[k]
                    => k \in reaper.workItemIds[FirstLoop] /\ k[1] = TheJob
     /\ last'.op = "deleteWorkflowStepsById"
          => /\ workItems' = workItems
             /\ workflowSteps \ workflowSteps' \subseteq reaper.workflowStepIds[FirstLoop]
             /\ \A k \in reaper.workflowStepIds[FirstLoop] : k[1] = TheJob]_vars

\* the reaper has deleted the work items and the workflow steps it selected
\* when the job was canceled and old
C21_Witness ==
  /\ last.op = "deleteWorkflowStepsById"
  /\ reaper.workItemIds[FirstLoop] # {}
  /\ reaper.workflowStepIds[FirstLoop] # {}
  /\ workflowSteps = {}
  /\ \A k \in DOMAIN workItems : workItems[k] = NoWorkItems
  /\ dbJob.status = "canceled"
  /\ now - dbJob.updatedAt > reapableWorkAgeMinutes

\* the job is stored in a final status and was last updated before the
\* threshold
FinishedAndOld ==
  /\ dbJob.status \in {"successful", "failed", "canceled", "complete_with_errors"}
  /\ now - dbJob.updatedAt > reapableWorkAgeMinutes

\* the job has neither work items nor workflow steps
NoWorkLeft ==
  /\ \A k \in DOMAIN workItems : k[1] = TheJob => workItems[k] = NoWorkItems
  /\ \A k \in workflowSteps : k[1] # TheJob

\* C22: while the reaper loop runs, a job stored as successful, failed,
\* canceled or complete_with_errors and last updated before the threshold
\* eventually has no work items and no workflow steps left.
C22_FinishedWorkEventuallyDeleted == FinishedAndOld ~> NoWorkLeft

\* the hrefs of the links of a sequence that have no id, in order
RECURSIVE HrefsWithoutId(_)
HrefsWithoutId(links) ==
  IF links = <<>> THEN <<>>
  ELSE (IF links[1].id = 0 THEN <<links[1].href>> ELSE <<>>)
         \o HrefsWithoutId(Tail(links))

\* C23: a save that goes through inserts one row for every link of the job
\* without an id, in their order, and leaves every row of job_links that was
\* there before as it was, also when the link it belongs to was changed in
\* memory.
C23_SaveOnlyInsertsNewLinks ==
  [][\A p \in Callers :
       (CallOf(p, "save") /\ ~last'.threw)
         => dbLinks' = dbLinks \o HrefsWithoutId(job[p].links)]_vars

\* a save went through for a job whose only link has an id and an href that
\* differs from its row
C23_Witness ==
  /\ last.op = "save" /\ ~last.threw
  /\ job[Main] # NoJob
  /\ Len(job[Main].links) > 0
  /\ job[Main].links[1].id = 1
  /\ job[Main].links[1].href = "h2"
  /\ dbLinks[1] = "h1"

\* C24: a save that goes through stores a request URL of at most 4,096
\* characters as it is and a longer one cut to its first 4,096 characters, and
\* the object then holds what was stored, so that saving again stores the
\* same request.
C24_RequestTruncatedOnce ==
  [][\A p \in Callers :
       (CallOf(p, "save") /\ ~last'.threw)
         => LET request == job[p].request
            IN /\ Len(request) <= 4096 => dbJob'.request = request
               /\ Len(request) > 4096
                    => /\ Len(dbJob'.request) = 4096
                       /\ dbJob'.request = SubSeq(request, 1, 4096)
               /\ job'[p].request = dbJob'.request
               /\ (last.op = "save" /\ ~last.threw /\ last.caller = p)
                    => dbJob'.request = dbJob.request]_vars

\* a new job with a request of 4,097 characters was saved and is stored with
\* the first 4,096 of them
C24_Witness ==
  /\ last.op = "save" /\ ~last.threw
  /\ Len(dbJob.request) = 4096
  /\ dbJob.request = SubSeq(RequestOfLength(4097), 1, 4096)
  /\ job[Main].request = dbJob.request
  /\ job[Main].originalStatus = Undefined

\* C25: after a save that goes through, the serialized status messages
\* written to the jobs row are at most 4,096 characters long.
C25_SerializedMessageFits ==
  dbJob.id # 0 => Len(stringify(dbJob.message)) <= 4096

\* the calls that may set a message
MessageOps ==
  MutatorOps \cup {"setMessage", "updateStatus"}

\* C26: a call that sets a message changes the message of no status but the
\* one the job is in afterwards; the message reported after the setter is the
\* message given; and succeed() without a message on a job that has no
\* message for successful reports "The job has completed successfully",
\* whatever messages were set for the statuses before.
C26_MessagesKeyedByStatus ==
  [][\A p \in Callers :
       (last'.caller = p /\ last'.op \in MessageOps /\ job[p] # NoJob)
         => /\ \A t \in JobStatus \ {job'[p].status} :
                 getMessage(job'[p], t) = getMessage(job[p], t)
            /\ last'.op = "setMessage" => message(job'[p]) \in CustomMessages
            /\ (last'.op = "succeed" /\ ~last'.threw
                  /\ job[p].statesToMessages["successful"] = Undefined)
                 => message(job'[p]) = "The job has completed successfully"]_vars

\* the job was given a message while running and has then succeeded without
\* one
C26_Witness ==
  /\ last.op = "succeed" /\ ~last.threw
  /\ job[Main].statesToMessages["running"] \in CustomMessages
  /\ job[Main].status = "successful"
  /\ message(job[Main]) = "The job has completed successfully"

\* C27: the provider list is loaded from the store at most once, and the
\* callers that hold a list returned by getProviderIdsSnapshot hold the same
\* list.
C27_SnapshotLoadedOnce ==
  /\ loads.issued <= 1
  /\ \A p \in Callers, q \in Callers :
       (got[p].pc = "returned" /\ got[q].pc = "returned")
         => got[p].result = got[q].result

\* C28: once a load has failed, the snapshot is the empty list and stays so,
\* every call returns the empty list and no call queries the store again.
C28_FailedLoadSticks ==
  [][(loads.failed > 0 /\ providerIdsSnapshot.defined)
       => /\ providerIdsSnapshot.ids = {}
          /\ providerIdsSnapshot' = providerIdsSnapshot
          /\ loads'.issued = loads.issued
          /\ \A p \in Callers :
               (got'[p].pc = "returned" /\ got[p].pc # "returned")
                 => got'[p].result.ids = {}]_vars

\* the calls on a Job object that change the job
JobMutatorOps ==
  MutatorOps \cup {"pauseAndSave", "updateStatus", "updateProgress",
                   "completeBatch", "addLink"}

\* C29: for a stored job, getDataExpiration() is createdAt plus 30 days
\* (43,200 minutes) when the job has no destination_url and null when it has
\* one, and no mutator called on the job changes what it returns.
C29_ExpirationFromCreatedAt ==
  [][\A p \in Callers :
       (job'[p] # NoJob /\ job'[p].createdAt # 0)
         => /\ job'[p].destination_url = Undefined
                 => getDataExpiration(job'[p]) =
                      [null |-> FALSE, date |-> job'[p].createdAt + 43200]
            /\ job'[p].destination_url # Undefined
                 => getDataExpiration(job'[p]).null
            /\ (last'.caller = p /\ last'.op \in JobMutatorOps
                  /\ job[p] # NoJob /\ job[p].createdAt # 0)
                 => getDataExpiration(job'[p]) = getDataExpiration(job[p])]_vars

\* a job created at minute 2 without a destination_url has been paused and
\* saved a minute later, and its data still expires 30 days after minute 2
C29_Witness ==
  /\ last.op = "pauseAndSave" /\ ~last.threw
  /\ job[Main] # NoJob
  /\ job[Main].status = "paused"
  /\ job[Main].createdAt = 2
  /\ dbJob.updatedAt = 3
  /\ getDataExpiration(job[Main]) = [null |-> FALSE, date |-> 43202]

\* the requests among the inputs that are http or https URLs
UrlRequests == {"http://x", "https://x"}

\* C30: validate() returns a list of errors exactly when progress is outside
\* 0..100, batchesCompleted is negative or the request is not an http(s)
\* URL, and nothing (null) otherwise; the list holds the request error exactly
\* when the request is not such a URL, as for "ftp://x".
C30_ValidateReportsExactly ==
  (last.op = "validate")
    => LET j == job[last.caller]
           requestError ==
             "Invalid request " \o j.request \o ". Job request must be a URL."
           invalid == \/ j.progress < 0 \/ j.progress > 100
                      \/ j.batchesCompleted < 0
                      \/ j.request \notin UrlRequests
       IN /\ invalid <=> (~ret.null /\ Len(ret.errors) > 0)
          /\ ~invalid <=> ret = NoErrors
          /\ j.request \notin UrlRequests
               <=> (\E i \in DOMAIN ret.errors : ret.errors[i] = requestError)

\* validate() of a job with request "ftp://x" and nothing else wrong has
\* returned the request error alone
C30_Witness ==
  /\ last.op = "validate"
  /\ job[Main].request = "ftp://x"
  /\ ret.errors = <<"Invalid request ftp://x. Job request must be a URL.">>

\* the candidate of the design document, section 4.4: the weighted sum over
\* max(1, sum of the weights), floored and clamped to 0..99
candidateOverAtLeastOne(steps) ==
  LET total == Max(WeightDen, SumWeights(steps))
      weighted == SumProgress(steps)
  IN Max(0, Min(weighted \div (StepProgressDen * total), 99))

\* the weighted sum over the sum of the weights, or over 1 when the job has
\* no steps, floored and clamped to 0..99
candidateOverWeights(steps) ==
  LET total == IF steps = <<>> THEN WeightDen ELSE SumWeights(steps)
      weighted == SumProgress(steps)
  IN Max(0, Min(weighted \div (StepProgressDen * total), 99))

\* C31 as stated: updateProgress sets progress to max(current, candidate)
\* with candidate = floor(sum(weight * progress) / max(1, sum(weight)))
\* clamped to 0..99
C31_ProgressIsMaxOverAtLeastOne ==
  [][\A steps \in RollupInputs :
       UpdateProgress(Main, steps)
         => job'[Main].progress
              = Max(job[Main].progress, candidateOverAtLeastOne(steps))]_vars

\* C31: updateProgress sets progress to max(current, candidate) with
\* candidate = floor(sum(weight * progress) / sum(weight)) clamped to 0..99
\* (the divisor is 1 for a job without steps); progress is left unchanged
\* when the candidate is not above it, and nothing else of the job changes
C31_ProgressIsMaxOverWeights ==
  [][\A steps \in RollupInputs :
       UpdateProgress(Main, steps)
         => /\ job'[Main].progress
                 = Max(job[Main].progress, candidateOverWeights(steps))
            /\ candidateOverWeights(steps) <= job[Main].progress
                 => job'[Main] = job[Main]
            /\ job'[Main] = [job[Main] EXCEPT !.progress = job'[Main].progress]]_vars

\* a rollup has raised the progress of a job from 0 to 1
C31_Witness ==
  /\ last.op = "updateProgress"
  /\ job[Main] # NoJob
  /\ job[Main].progress = 1

\* a query or a delete of the tick of the first loop has failed
TickFailed == last.op = "deleteTerminalWork" /\ last.threw

\* C32: an error of any of the four queries and deletes of a tick is caught
\* inside deleteTerminalWork: the loop goes on to its sleep with the flag and
\* the tables as they were, and while the reaper is running the next tick
\* begins
C32_TickErrorIsSwallowed ==
  /\ [][(last'.op = "deleteTerminalWork" /\ last'.threw)
          => /\ reaper.pc[FirstLoop]
                  \in {"selectItems", "deleteItems", "selectSteps", "deleteSteps"}
             /\ reaper'.pc[FirstLoop] = "sleep"
             /\ reaper'.isRunning = reaper.isRunning
             /\ UNCHANGED <<workItems, workflowSteps>>]_vars
  /\ (TickFailed ~> reaper.pc[FirstLoop] = "selectItems")

\* the delete of the work items of a canceled job has failed and the loop is
\* in its sleep
C32_Witness ==
  /\ TickFailed
  /\ reaper.pc[FirstLoop] = "sleep"
  /\ reaper.workItemIds[FirstLoop] # {}
  /\ workItems[<<TheJob, TheService>>] # NoWorkItems
  /\ dbJob.status = "canceled"

\* the positions of a loop inside deleteTerminalWork
InTick == {"selectItems", "deleteItems", "selectSteps", "deleteSteps"}

\* C33: after stop() the loop that start() began runs no tick beyond the one
\* in progress: at its next test of the flag it exits, and it gets there
C33_StoppedLoopExits ==
  /\ [][\A l \in ReaperLoops :
          (reaper.stopCalled[l] /\ reaper.pc[l] = "loop" /\ reaper'.pc[l] # "loop")
            => reaper'.pc[l] = "stopped"]_vars
  /\ \A l \in ReaperLoops : reaper.stopCalled[l] ~> reaper.pc[l] = "stopped"

\* C40: two loops of one WorkReaper are never inside deleteTerminalWork at
\* the same time, and at most one loop is running
C40_OneLoopAtATime ==
  /\ Cardinality({l \in ReaperLoops : reaper.pc[l] \in InTick}) <= 1
  /\ Cardinality({l \in ReaperLoops : reaper.pc[l] # "stopped"}) <= 1

\* C34: after recalculateReadyCount(jobID) every user_work row of the job
\* has ready_count equal to the number of work items of its (jobID,
\* serviceID), and running_count and the rows of other jobs are as before
C34_ReadyCountIsItemCount ==
  [][\A jobID \in Jobs :
       RecalculateReadyCount(jobID)
         => \A k \in DOMAIN userWork :
              IF k[1] = jobID /\ userWork[k].exists
                THEN userWork'[k]
                       = [userWork[k] EXCEPT
                            !.ready_count = workItems[k].ready + workItems[k].running]
                ELSE userWork'[k] = userWork[k]]_vars

NonTerminalStatuses == JobStatus \ terminalStates

\* the statuses from which the state machine accepts CANCEL
CancelableStatuses == {"running", "running_with_errors", "previewing", "paused"}

\* C36 as stated: cancel() succeeds on every job whose status is not
\* terminal and leaves it canceled
C36_CancelFromEveryNonTerminal ==
  [][\A p \in Callers :
       (CallOf(p, "cancel") /\ job[p].status \in NonTerminalStatuses)
         => ~last'.threw /\ job'[p].status = "canceled"]_vars

\* C36, amended: cancel() succeeds on every job that is running,
\* running_with_errors, previewing or paused and leaves it canceled; on an
\* accepted job, as on a finished one, it throws and changes nothing
C36_CancelFromStartedJobs ==
  [][\A p \in Callers :
       CallOf(p, "cancel")
         => IF job[p].status \in CancelableStatuses
              THEN ~last'.threw /\ job'[p].status = "canceled"
              ELSE last'.threw /\ job'[p] = job[p]]_vars

\* a job has been canceled
C36_Witness ==
  /\ last.op = "cancel" /\ ~last.threw
  /\ job[Main] # NoJob
  /\ job[Main].status = "canceled"

\* C37: while the stored job is paused, every user_work row of the job has
\* ready_count = 0 and getNextJobIdForUsernameAndService does not return the
\* job
C37_PausedJobIsNotDispatched ==
  (dbJob.id # 0 /\ dbJob.status = "paused")
    => /\ \A s \in Services :
            userWork[<<TheJob, s>>].exists => userWork[<<TheJob, s>>].ready_count = 0
       /\ ~(last.op = "getNextJobIdForUsernameAndService" /\ ~last.threw /\ ret = TheJob)

\* C38: every completed incrementReadyCount(jobID, serviceID, n) of a caller
\* that saved the row of the pair leaves a user_work row for the pair whose
\* ready_count is n higher than before the call, whatever deleteOrphanedRows
\* and deleteUserWorkForJob did in between
C38_NoIncrementIsLost ==
  [][\A p \in Callers :
       QueueWorkIncrement(p, 1)
         => LET k == <<pick[p].jobID, pick[p].serviceID>>
            IN /\ userWork'[k].exists
               /\ userWork'[k].ready_count = userWork[k].ready_count + 1]_vars

\* C39: a dispatcher that got a username from getNextUsernameForWork gets a
\* job id from getNextJobIdForUsernameAndService for that username: the call
\* does not fail and returns a job
C39_NextJobIdNeverFails ==
  [][\A p \in Callers :
       (pc[p] = "gotUser" /\ pc'[p] # "gotUser")
         => /\ last'.op = "getNextJobIdForUsernameAndService"
            /\ ~last'.threw
            /\ ret' \in Jobs]_vars

TypeOK ==
  /\ lock \in 0..NumCallers
  /\ dbLinks \in Seq({"h1", "h2"})
  /\ \A p \in Callers : job[p] # NoJob => job[p].status \in JobStatus

====
